---- MODULE Spec2Model ----
(***************************************************************************)
(* Share ledger and fermage engine of SCTL-GFA (backend/app/crud.py,       *)
(* backend/app/models.py, backend/app/api/routes).                         *)
(*                                                                         *)
(* The relational store is modelled table by table: each table is a        *)
(* function from the primary keys of its rows to the rows.  Foreign keys   *)
(* declared in models.py are enforced by the store when a unit of work is  *)
(* flushed (PostgreSQL), so a write that breaks one raises IntegrityError  *)
(* and the transaction is rolled back.                                     *)
(***************************************************************************)
EXTENDS Integers, Sequences, FiniteSets, TLC

VARIABLES
    structures,     \* table structures:     id -> row
    personnes,      \* table personnes:      id -> row
    mouvements,     \* table mouvements:     id -> row
    actes,          \* table actes:          id -> row
    numeros_parts,  \* table numeros_parts:  id -> row
    seq,            \* the primary-key sequences of the tables
    last,           \* the request served last: operation, arguments, outcome
    sessions,       \* the units of work of the transfers in flight
    valeurs_points, \* table valeurs_points: id -> row
    parcelles,      \* table parcelles:      id -> row
    subdivisions    \* table subdivisions:   id -> row

vars == <<structures, personnes, mouvements, actes, numeros_parts, seq, last, sessions,
          valeurs_points, parcelles, subdivisions>>

\* The tables of the cadastre and of the fermage.
cadastre == <<valeurs_points, parcelles, subdivisions>>

tables == <<structures, personnes, mouvements, actes, numeros_parts, seq, cadastre>>

-----------------------------------------------------------------------------
(* Bounds of the model. *)

MaxPersonnes == 2       \* personnes rows ever created
MaxMouvements == 1      \* mouvements rows ever created
MaxParts == 2           \* numeros_parts rows ever created
MaxReq == 2             \* length of a transfer request's part_ids
MaxActes == 1           \* actes rows ever created
MaxListed == 3          \* mouvements rows ever created for the listings
MaxSessions == 2        \* transfers in flight at the same time
MaxValeurs == 2         \* valeurs_points rows ever created
MaxParcelles == 2       \* parcelles rows ever created
MaxSubdivisions == 2    \* subdivisions rows ever created

-----------------------------------------------------------------------------
(* Values. *)

\* Python None / SQL NULL.  Primary keys start at 1.
NULL == 0

\* models.py, TypeStructure
GFA == 2
ASSOC == 5
TSL == 6

Range(s) == {s[i] : i \in DOMAIN s}

RECURSIVE SeqsUpTo(_, _)
SeqsUpTo(S, n) ==
    IF n = 0 THEN {<<>>}
    ELSE LET shorter == SeqsUpTo(S, n - 1)
         IN  shorter \cup {Append(s, x) : s \in {t \in shorter : Len(t) = n - 1}, x \in S}

-----------------------------------------------------------------------------
(* Rows. *)

\* The structures loaded by migrate_structures: one of each kind.
SeedStructures ==
    (1 :> [id |-> 1, type_structure |-> GFA])
    @@ (2 :> [id |-> 2, type_structure |-> TSL])
    @@ (3 :> [id |-> 3, type_structure |-> ASSOC])

\* PersonneCreate payloads.  nom and prenom are modelled by their rank in the
\* collation order of the store.
PersonneInputs ==
    { [nom |-> 1, prenom |-> 1, id_structure |-> 1,
       est_personne_morale |-> FALSE, id_personne_morale |-> NULL],
      [nom |-> 2, prenom |-> 1, id_structure |-> NULL,
       est_personne_morale |-> TRUE, id_personne_morale |-> NULL] }

\* The payload the ledger specification creates personnes from: a transfer
\* reads a personne only through its id.
LedgerPersonneInputs == {p \in PersonneInputs : p.nom = 1}

\* NumeroPartBase fields and owning structure of the NumeroPartCreate
\* payloads: a share of a GFA, a share of the TSL, a terminated share, a share
\* of an association, a share without structure.
PartBaseInputs ==
    { [num_part |-> 1, termine |-> FALSE, distribue |-> FALSE, etat |-> 0, id_structure |-> 1],
      [num_part |-> 1, termine |-> FALSE, distribue |-> TRUE, etat |-> 1, id_structure |-> 2],
      [num_part |-> 2, termine |-> TRUE, distribue |-> TRUE, etat |-> 0, id_structure |-> 1],
      [num_part |-> 3, termine |-> FALSE, distribue |-> FALSE, etat |-> 0, id_structure |-> 3],
      [num_part |-> 4, termine |-> FALSE, distribue |-> FALSE, etat |-> 0, id_structure |-> NULL] }

\* Ids a request may name: every id a row can have, and one no row ever has.
PersonneIdInputs == 1..(MaxPersonnes + 1)
MouvementIdInputs == 1..(MaxMouvements + 1)
PartIdInputs == 1..(MaxParts + 1)

\* NumeroPartCreate payloads.
PartInputs ==
    { base @@ [id_personne |-> p, id_mouvement |-> m] :
        base \in PartBaseInputs,
        p \in PersonneIdInputs,
        m \in {NULL} \cup MouvementIdInputs }

\* The payloads the ledger specification creates shares from: counted shares
\* of both kinds and a terminated one.
LedgerPartInputs == {part_in \in PartInputs : part_in.id_structure \in {1, 2}}

\* The payloads the share-count specification creates shares from: shares of
\* every kind, none linked to a mouvement.
CountPartInputs == {part_in \in PartInputs : part_in.id_mouvement = NULL}

Ids(table) == DOMAIN table

-----------------------------------------------------------------------------
(* The outcome of a request. *)

Returned(op, args, ret, pre) ==
    [op |-> op, args |-> args, outcome |-> "returned", ret |-> ret, pre |-> pre]

Raised(op, args, exc, pre) ==
    [op |-> op, args |-> args, outcome |-> "raised", ret |-> exc, pre |-> pre]

NoRequest == [op |-> "none", args |-> <<>>, outcome |-> "none", ret |-> <<>>, pre |-> <<>>]

\* The requests are served one at a time: a request is taken when the
\* response to the one before has left.
Idle == last = NoRequest

-----------------------------------------------------------------------------
(* Foreign keys of models.py, checked by the store at flush. *)

\* Mutant of PartForeignKeysHold: id_mouvement is a plain integer column.
PartForeignKeysHoldWithoutMouvement(row, pers, mouvs, structs) ==
    /\ row.id_personne \in Ids(pers)
    /\ row.id_structure # NULL => row.id_structure \in Ids(structs)

\* NumeroPart: id_personne -> personnes.id (required), id_mouvement ->
\* mouvements.id, id_structure -> structures.id (both optional).
PartForeignKeysHold(row, pers, mouvs, structs) ==
    /\ row.id_personne \in Ids(pers)
    /\ row.id_mouvement # NULL => row.id_mouvement \in Ids(mouvs)
    /\ row.id_structure # NULL => row.id_structure \in Ids(structs)

\* Mouvement: id_personne -> personnes.id (required), id_acte -> actes.id.
MouvementForeignKeysHold(row, pers, acts) ==
    /\ row.id_personne \in Ids(pers)
    /\ row.id_acte # NULL => row.id_acte \in Ids(acts)

-----------------------------------------------------------------------------
(* Units of work.  Every request has a session of its own; the store runs   *)
(* each one in a transaction (PostgreSQL, READ COMMITTED).                  *)

SessionIds == 1..MaxSessions

\* A session no request uses.  pc: the position of transfer_parts; rest: the
\* part_ids still to visit; loaded: the identity map, id -> the row as read;
\* dirty: the loaded ids with changes no UPDATE has carried yet; txn: id ->
\* the row as this transaction wrote it, not yet committed; ret: the rows
\* returned, or the exception raised.
NoSession ==
    [pc |-> "free", part_ids |-> <<>>, new_owner_id |-> NULL, mouvement_id |-> NULL,
     rest |-> <<>>, loaded |-> <<>>, dirty |-> {}, txn |-> <<>>,
     transferred |-> <<>>, ret |-> <<>>]

\* The sessions other than s that hold the row lock of id: an UPDATE locks
\* its row until its transaction ends.
LockHolders(s, id) == {t \in SessionIds \ {s} : id \in DOMAIN sessions[t].txn}

-----------------------------------------------------------------------------
(* Single-table writes. *)

\* Mutant of SqlmodelUpdate: the payload is dropped.
SqlmodelUpdateDropped(db_obj, data) == db_obj

\* db_obj.sqlmodel_update(data), data being model_dump(exclude_unset=True)
\* of the payload: the fields the request set take its values (None
\* included), the others keep theirs.
SqlmodelUpdate(db_obj, data) == data @@ db_obj

CreatePersonne(inputs) ==
    /\ Idle
    /\ seq.personnes < MaxPersonnes
    /\ \E personne_in \in inputs :
        LET id == seq.personnes + 1
            db_obj == [id |-> id] @@ personne_in
        IN  /\ personnes' = personnes @@ (id :> db_obj)
            /\ seq' = [seq EXCEPT !.personnes = id]
            /\ last' = Returned("create_personne", <<>>, id, <<>>)
    /\ UNCHANGED <<structures, mouvements, actes, numeros_parts, sessions, cadastre>>

\* MouvementCreate payloads: the owning personne is required.
MouvementInputs ==
    [date_operation : {NULL}, sens : {TRUE}, nb_parts : {1},
     id_personne : PersonneIdInputs, id_acte : {NULL}]

\* Mutant of CreateMouvement: recording the mouvement gives nb_parts shares
\* to its personne.
CreateMouvementMovingShares(inputs, max) ==
    /\ Idle
    /\ seq.mouvements < max
    /\ \E mouvement_in \in inputs :
        LET id == seq.mouvements + 1
            db_obj == [id |-> id] @@ mouvement_in
            moved == {k \in Ids(numeros_parts) : k <= mouvement_in.nb_parts}
        IN  IF MouvementForeignKeysHold(db_obj, personnes, actes)
            THEN /\ mouvements' = mouvements @@ (id :> db_obj)
                 /\ numeros_parts' =
                        [k \in Ids(numeros_parts) |->
                            IF k \in moved
                            THEN [numeros_parts[k] EXCEPT !.id_personne = db_obj.id_personne,
                                                          !.id_mouvement = id]
                            ELSE numeros_parts[k]]
                 /\ seq' = [seq EXCEPT !.mouvements = id]
                 /\ last' = Returned("create_mouvement", <<>>, id, <<>>)
            ELSE /\ UNCHANGED <<mouvements, numeros_parts, seq>>
                 /\ last' = Raised("create_mouvement", <<>>, "IntegrityError", <<>>)
    /\ UNCHANGED <<structures, personnes, actes, sessions, cadastre>>

CreateMouvement(inputs, max) ==
    /\ Idle
    /\ seq.mouvements < max
    /\ \E mouvement_in \in inputs :
        LET id == seq.mouvements + 1
            db_obj == [id |-> id] @@ mouvement_in
        IN  IF MouvementForeignKeysHold(db_obj, personnes, actes)
            THEN /\ mouvements' = mouvements @@ (id :> db_obj)
                 /\ seq' = [seq EXCEPT !.mouvements = id]
                 /\ last' = Returned("create_mouvement", <<>>, id, <<>>)
            ELSE /\ UNCHANGED <<mouvements, seq>>
                 /\ last' = Raised("create_mouvement", <<>>, "IntegrityError", <<>>)
    /\ UNCHANGED <<structures, personnes, actes, numeros_parts, sessions, cadastre>>

CreateNumeroPart(inputs) ==
    /\ Idle
    /\ seq.numeros_parts < MaxParts
    /\ \E part_in \in inputs :
        LET id == seq.numeros_parts + 1
            db_obj == [id |-> id] @@ part_in
        IN  IF PartForeignKeysHold(db_obj, personnes, mouvements, structures)
            THEN /\ numeros_parts' = numeros_parts @@ (id :> db_obj)
                 /\ seq' = [seq EXCEPT !.numeros_parts = id]
                 /\ last' = Returned("create_numero_part", <<>>, id, <<>>)
            ELSE /\ UNCHANGED <<numeros_parts, seq>>
                 /\ last' = Raised("create_numero_part", <<>>, "IntegrityError", <<>>)
    /\ UNCHANGED <<structures, personnes, mouvements, actes, sessions, cadastre>>

Without(table, id) == [k \in Ids(table) \ {id} |-> table[k]]

delete_numero_part ==
    /\ Idle
    /\ \E part_id \in PartIdInputs :
        IF part_id \in Ids(numeros_parts)
        THEN /\ LockHolders(NULL, part_id) = {}
             /\ numeros_parts' = Without(numeros_parts, part_id)
             /\ last' = Returned("delete_numero_part", part_id, TRUE, <<>>)
        ELSE /\ UNCHANGED numeros_parts
             /\ last' = Returned("delete_numero_part", part_id, FALSE, <<>>)
    /\ UNCHANGED <<structures, personnes, mouvements, actes, seq, sessions, cadastre>>

-----------------------------------------------------------------------------
(* transfer_parts. *)

\* session.get(NumeroPart, part_id): <<row>>, or <<>> for None.
SessionGet(table, id) == IF id \in Ids(table) THEN <<table[id]>> ELSE <<>>

\* Mutant of Transferred: the loop stops at the first id that names no row.
RECURSIVE TransferredUntilMissing(_, _)
TransferredUntilMissing(table, part_ids) ==
    IF part_ids = <<>> THEN <<>>
    ELSE IF SessionGet(table, Head(part_ids)) = <<>> THEN <<>>
    ELSE <<Head(part_ids)>> \o TransferredUntilMissing(table, Tail(part_ids))

\* The loop of transfer_parts: the ids of part_ids whose row exists, in the
\* order of the request (one entry per position of the request).
RECURSIVE Transferred(_, _)
Transferred(table, part_ids) ==
    IF part_ids = <<>> THEN <<>>
    ELSE LET part == SessionGet(table, Head(part_ids))
             rest == Transferred(table, Tail(part_ids))
         IN  IF part # <<>> THEN <<Head(part_ids)>> \o rest ELSE rest

\* The unit of work records an attribute as changed only when the value
\* assigned differs from the value loaded; the UPDATE sets those columns.
AssignedColumns(loaded, new_owner_id, mouvement_id) ==
    (IF loaded.id_personne # new_owner_id THEN {"id_personne"} ELSE {})
    \cup (IF loaded.id_mouvement # mouvement_id THEN {"id_mouvement"} ELSE {})

\* Mutant of UpdateColumns: the transfer also closes the share.
UpdateColumnsTerminating(row, cols, new_owner_id, mouvement_id) ==
    [row EXCEPT
        !.id_personne = IF "id_personne" \in cols THEN new_owner_id ELSE @,
        !.id_mouvement = IF "id_mouvement" \in cols THEN mouvement_id ELSE @,
        !.termine = TRUE]

\* UPDATE numeros_parts SET <cols> WHERE id = ..., on the row as stored.
UpdateColumns(row, cols, new_owner_id, mouvement_id) ==
    [row EXCEPT
        !.id_personne = IF "id_personne" \in cols THEN new_owner_id ELSE @,
        !.id_mouvement = IF "id_mouvement" \in cols THEN mouvement_id ELSE @]

\* Mutant of Flushed: once a share is loaded, the UPDATE reaches every row.
FlushedEveryRow(table, loaded, new_owner_id, mouvement_id) ==
    [id \in Ids(table) |->
        IF Ids(loaded) # {}
        THEN [table[id] EXCEPT !.id_personne = new_owner_id,
                               !.id_mouvement = mouvement_id]
        ELSE table[id]]

\* session.commit(): every pending UPDATE of the unit of work, in one
\* transaction.  loaded: id -> the row as the session read it.
Flushed(table, loaded, new_owner_id, mouvement_id) ==
    [id \in Ids(table) |->
        IF id \in Ids(loaded)
        THEN UpdateColumns(table[id],
                           AssignedColumns(loaded[id], new_owner_id, mouvement_id),
                           new_owner_id, mouvement_id)
        ELSE table[id]]

\* The foreign keys of the rows the commit writes.
CommitAccepted(table, pers, mouvs, structs) ==
    \A id \in Ids(table) : PartForeignKeysHold(table[id], pers, mouvs, structs)

\* session.refresh(part) for part in transferred: the rows as stored.
Refreshed(table, transferred) == [i \in DOMAIN transferred |-> table[transferred[i]]]

TransferRequests == SeqsUpTo(PartIdInputs, MaxReq)

transfer_parts ==
    /\ Idle
    /\ \E part_ids \in TransferRequests,
          new_owner_id \in PersonneIdInputs,
          mouvement_id \in MouvementIdInputs :
        LET args == [part_ids |-> part_ids, new_owner_id |-> new_owner_id,
                     mouvement_id |-> mouvement_id]
            transferred == Transferred(numeros_parts, part_ids)
            loaded == [id \in Range(transferred) |-> numeros_parts[id]]
            written == Flushed(numeros_parts, loaded, new_owner_id, mouvement_id)
        IN  IF CommitAccepted(written, personnes, mouvements, structures)
            THEN /\ numeros_parts' = written
                 /\ last' = Returned("transfer_parts", args,
                                     Refreshed(written, transferred), numeros_parts)
            ELSE /\ UNCHANGED numeros_parts
                 /\ last' = Raised("transfer_parts", args, "IntegrityError", numeros_parts)
    /\ UNCHANGED <<structures, personnes, mouvements, actes, seq, sessions, cadastre>>

-----------------------------------------------------------------------------
(* transfer_parts, statement by statement, in the session of its request. *)

\* The seed of the concurrent ledger: what create_personne, create_mouvement
\* and create_numero_part leave when every share belongs to personne 1.
SeedPersonnes ==
    [id \in 1..MaxPersonnes |->
        [id |-> id, nom |-> 1, prenom |-> 1, id_structure |-> 1,
         est_personne_morale |-> FALSE, id_personne_morale |-> NULL]]

SeedMouvements ==
    [id \in 1..MaxMouvements |->
        [id |-> id, date_operation |-> NULL, sens |-> TRUE, nb_parts |-> 1,
         id_personne |-> 1, id_acte |-> NULL]]

SeedParts ==
    [id \in 1..MaxParts |->
        [id |-> id, num_part |-> 1, termine |-> FALSE, distribue |-> FALSE,
         etat |-> 0, id_structure |-> 1, id_personne |-> 1, id_mouvement |-> NULL]]

\* The row a SELECT of session s finds for id: the row its transaction
\* wrote, or else the row committed last; <<>> when there is none.
Visible(s, id) ==
    IF id \in DOMAIN sessions[s].txn THEN <<sessions[s].txn[id]>>
    ELSE SessionGet(numeros_parts, id)

\* Mutant of Published: the rows a transaction wrote are seen by the other
\* transactions before it commits.
PublishedUncommitted(table, txn, committing) ==
    [id \in Ids(table) |-> IF id \in DOMAIN txn THEN txn[id] ELSE table[id]]

\* The table the other transactions see once a transaction has run a
\* statement: its rows reach them when it commits, all together.
Published(table, txn, committing) ==
    IF committing
    THEN [id \in Ids(table) |-> IF id \in DOMAIN txn THEN txn[id] ELSE table[id]]
    ELSE table

\* The exception leaves transfer_parts; the session is closed and its
\* transaction rolled back.
Failed(session, exc) ==
    [session EXCEPT !.pc = "raised", !.ret = exc, !.txn = <<>>, !.dirty = {}]

\* The request reaches transfer_parts.
transfer_begin ==
    \E s \in SessionIds, part_ids \in TransferRequests,
       new_owner_id \in PersonneIdInputs, mouvement_id \in MouvementIdInputs :
        /\ sessions[s].pc = "free"
        /\ sessions' = [sessions EXCEPT ![s] =
                [NoSession EXCEPT !.pc = "loop", !.part_ids = part_ids,
                                  !.new_owner_id = new_owner_id,
                                  !.mouvement_id = mouvement_id,
                                  !.rest = part_ids]]
        /\ UNCHANGED <<tables, last>>

\* One turn of the loop.  session.get answers from the identity map, or
\* else reads the row (the pending UPDATE went first: transfer_flush); the
\* two assignments mark the part as changed when they change a value.
transfer_get ==
    \E s \in SessionIds :
        LET session == sessions[s]
            part_id == Head(session.rest)
            part == Visible(s, part_id)
        IN  /\ session.pc = "loop"
            /\ session.rest # <<>>
            /\ IF part_id \in DOMAIN session.loaded
               THEN sessions' = [sessions EXCEPT ![s] =
                        [session EXCEPT !.rest = Tail(@),
                                        !.transferred = Append(@, part_id)]]
               ELSE /\ session.dirty = {}
                    /\ IF part = <<>>
                       THEN sessions' = [sessions EXCEPT ![s] =
                                [session EXCEPT !.rest = Tail(@)]]
                       ELSE sessions' = [sessions EXCEPT ![s] =
                                [session EXCEPT
                                    !.rest = Tail(@),
                                    !.loaded = @ @@ (part_id :> part[1]),
                                    !.dirty = IF AssignedColumns(part[1], session.new_owner_id,
                                                                 session.mouvement_id) # {}
                                              THEN {part_id} ELSE {},
                                    !.transferred = Append(@, part_id)]]
            /\ UNCHANGED <<tables, last>>

\* The session needs the row lock of the part it is about to UPDATE.
FlushWanted(s) ==
    /\ sessions[s].pc = "loop"
    /\ sessions[s].dirty # {}
    /\ sessions[s].rest # <<>> => Head(sessions[s].rest) \notin DOMAIN sessions[s].loaded

\* The flush before the next read, or the one of session.commit(): the
\* UPDATE of the changed part, on the row committed last, once no other
\* transaction holds its lock.  No row: StaleDataError; a foreign key
\* without its row: IntegrityError.
transfer_flush ==
    \E s \in SessionIds :
        LET session == sessions[s]
        IN  /\ FlushWanted(s)
            /\ \E part_id \in session.dirty :
                LET stored == SessionGet(numeros_parts, part_id)
                    cols == AssignedColumns(session.loaded[part_id],
                                            session.new_owner_id, session.mouvement_id)
                    written == UpdateColumns(stored[1], cols, session.new_owner_id,
                                             session.mouvement_id)
                    after == IF stored = <<>> THEN Failed(session, "StaleDataError")
                             ELSE IF ~PartForeignKeysHold(written, personnes,
                                                          mouvements, structures)
                             THEN Failed(session, "IntegrityError")
                             ELSE [session EXCEPT !.dirty = {},
                                                  !.txn = @ @@ (part_id :> written)]
                IN  /\ LockHolders(s, part_id) = {}
                    /\ sessions' = [sessions EXCEPT ![s] = after]
                    /\ numeros_parts' = Published(numeros_parts, after.txn, FALSE)
            /\ UNCHANGED <<structures, personnes, mouvements, actes, seq, last, cadastre>>

\* The sessions that wait, one for the lock of the next, from s back to s.
RECURSIVE WaitsInCycle(_, _, _)
WaitsInCycle(s, t, n) ==
    /\ n > 0
    /\ FlushWanted(t)
    /\ \E part_id \in sessions[t].dirty, holder \in SessionIds :
        /\ holder \in LockHolders(t, part_id)
        /\ (holder = s \/ WaitsInCycle(s, holder, n - 1))

\* The store ends a deadlock: one of the transactions that wait for each
\* other is aborted, and its UPDATE raises OperationalError.
transfer_deadlock ==
    \E s \in SessionIds :
        /\ WaitsInCycle(s, s, MaxSessions)
        /\ sessions' = [sessions EXCEPT ![s] = Failed(sessions[s], "OperationalError")]
        /\ UNCHANGED <<tables, last>>

\* session.commit(), once its flush is over: COMMIT.
transfer_commit ==
    \E s \in SessionIds :
        LET session == sessions[s]
        IN  /\ session.pc = "loop"
            /\ session.rest = <<>>
            /\ session.dirty = {}
            /\ numeros_parts' = Published(numeros_parts, session.txn, TRUE)
            /\ sessions' = [sessions EXCEPT ![s] =
                    [session EXCEPT !.pc = "committed", !.txn = <<>>]]
            /\ UNCHANGED <<structures, personnes, mouvements, actes, seq, last, cadastre>>

\* session.refresh(part) for every part transferred, and the return; a
\* part deleted since the commit cannot be refreshed.
transfer_refresh ==
    \E s \in SessionIds :
        LET session == sessions[s]
        IN  /\ session.pc = "committed"
            /\ sessions' = [sessions EXCEPT ![s] =
                    IF Range(session.transferred) \subseteq Ids(numeros_parts)
                    THEN [session EXCEPT !.pc = "returned",
                                         !.ret = Refreshed(numeros_parts, session.transferred)]
                    ELSE Failed(session, "InvalidRequestError")]
            /\ UNCHANGED <<tables, last>>

-----------------------------------------------------------------------------
(* Share counts. *)

\* Mutant of CountParts: the termine condition is missing.
CountPartsWithTerminated(parts, structs, owners, kind) ==
    Cardinality({id \in Ids(parts) :
        /\ parts[id].id_structure \in Ids(structs)
        /\ parts[id].id_personne \in owners
        /\ structs[parts[id].id_structure].type_structure = kind})

\* select count() from NumeroPart join Structure on id_structure = Structure.id
\* where termine = False and type_structure = kind [and id_personne = owner].
\* owners: the id_personne values the where clause admits.
CountParts(parts, structs, owners, kind) ==
    Cardinality({id \in Ids(parts) :
        /\ parts[id].id_structure \in Ids(structs)
        /\ parts[id].id_personne \in owners
        /\ parts[id].termine = FALSE
        /\ structs[parts[id].id_structure].type_structure = kind})

AllOwners(parts) == {parts[id].id_personne : id \in Ids(parts)}

\* The counts get_personne_with_parts adds to the personne's own fields.
PersonneCounts(parts, structs, personne_id) ==
    LET gfa_count == CountParts(parts, structs, {personne_id}, GFA)
        sctl_count == CountParts(parts, structs, {personne_id}, TSL)
    IN  [nb_parts_gfa |-> gfa_count,
         nb_parts_sctl |-> sctl_count,
         nb_parts_total |-> gfa_count + sctl_count]

\* get_personne_with_parts: <<PersonneWithParts>>, or <<>> for None.
GetPersonneWithParts(pers, parts, structs, personne_id) ==
    IF personne_id \notin Ids(pers) THEN <<>>
    ELSE <<pers[personne_id] @@ PersonneCounts(parts, structs, personne_id)>>

\* Mutant of GetPartsTotals: actionnaires counts the shares, not the distinct
\* personnes owning them.
GetPartsTotalsCountingShares(parts, structs) ==
    LET gfa_total == CountParts(parts, structs, AllOwners(parts), GFA)
        sctl_total == CountParts(parts, structs, AllOwners(parts), TSL)
    IN  [gfa |-> gfa_total,
         sctl |-> sctl_total,
         total |-> gfa_total + sctl_total,
         actionnaires |-> Cardinality({k \in Ids(parts) : parts[k].termine = FALSE})]

\* get_parts_totals.
GetPartsTotals(parts, structs) ==
    LET gfa_total == CountParts(parts, structs, AllOwners(parts), GFA)
        sctl_total == CountParts(parts, structs, AllOwners(parts), TSL)
        actionnaires_count ==
            Cardinality({parts[id].id_personne :
                            id \in {k \in Ids(parts) : parts[k].termine = FALSE}})
    IN  [gfa |-> gfa_total,
         sctl |-> sctl_total,
         total |-> gfa_total + sctl_total,
         actionnaires |-> actionnaires_count]

-----------------------------------------------------------------------------
(* The share-count reads. *)

get_personne_with_parts ==
    /\ Idle
    /\ \E personne_id \in PersonneIdInputs :
        last' = Returned("get_personne_with_parts", personne_id,
                         GetPersonneWithParts(personnes, numeros_parts, structures,
                                              personne_id), <<>>)
    /\ UNCHANGED <<tables, sessions>>

get_parts_totals ==
    /\ Idle
    /\ last' = Returned("get_parts_totals", <<>>,
                        GetPartsTotals(numeros_parts, structures), <<>>)
    /\ UNCHANGED <<tables, sessions>>

\* Mutant of GroupedCounts: the subquery counts terminated shares too.
GroupedCountsWithTerminated(parts, structs, kind) ==
    LET counted == {id \in Ids(parts) :
                        /\ parts[id].id_structure \in Ids(structs)
                        /\ structs[parts[id].id_structure].type_structure = kind}
    IN  [p \in {parts[id].id_personne : id \in counted} |->
            Cardinality({id \in counted : parts[id].id_personne = p})]

\* gfa_subquery / sctl_subquery of get_personnes_with_parts: one row
\* (id_personne, count) per personne owning a counted share of the kind.
GroupedCounts(parts, structs, kind) ==
    LET counted == {id \in Ids(parts) :
                        /\ parts[id].id_structure \in Ids(structs)
                        /\ parts[id].termine = FALSE
                        /\ structs[parts[id].id_structure].type_structure = kind}
    IN  [p \in {parts[id].id_personne : id \in counted} |->
            Cardinality({id \in counted : parts[id].id_personne = p})]

\* outerjoin(subquery) with func.coalesce(count, 0).
Coalesced(subquery, personne_id) ==
    IF personne_id \in DOMAIN subquery THEN subquery[personne_id] ELSE 0

\* The filters of the listing modelled here: id_structure (NULL for None) and
\* est_personne_morale (<<>> for None, <<b>> for the flag b).  The other flags
\* are where clauses of the same shape.
PersonneFilters ==
    [id_structure : {NULL, 1}, est_personne_morale : {<<>>, <<TRUE>>}]

PersonneMatches(row, filters) ==
    /\ filters.id_structure # NULL => row.id_structure = filters.id_structure
    /\ filters.est_personne_morale # <<>> =>
            row.est_personne_morale = filters.est_personne_morale[1]

\* Mutant of PersonneCountMatches: the count statement lacks the where
\* clause of est_personne_morale.
PersonneCountMatchesStructureOnly(row, filters) ==
    filters.id_structure # NULL => row.id_structure = filters.id_structure

\* The where clauses of the count statement of get_personnes_with_parts,
\* written apart from those of the page statement.
PersonneCountMatches(row, filters) ==
    /\ filters.id_structure # NULL => row.id_structure = filters.id_structure
    /\ filters.est_personne_morale # <<>> =>
            row.est_personne_morale = filters.est_personne_morale[1]

\* order_by(Personne.nom, Personne.prenom): the orders the store may return
\* the rows in; rows with equal names come in any order.
NameOrdered(pers, a, b) ==
    \/ pers[a].nom < pers[b].nom
    \/ pers[a].nom = pers[b].nom /\ pers[a].prenom <= pers[b].prenom

OrdersByName(pers, ids) ==
    {order \in SeqsUpTo(ids, Cardinality(ids)) :
        /\ Len(order) = Cardinality(ids)
        /\ Range(order) = ids
        /\ \A i, j \in DOMAIN order : i < j => NameOrdered(pers, order[i], order[j])}

\* offset(skip).limit(limit)
Page(rows, skip, limit) ==
    LET first == skip + 1
        end == IF skip + limit < Len(rows) THEN skip + limit ELSE Len(rows)
    IN  IF first > end THEN <<>> ELSE SubSeq(rows, first, end)

\* The PersonneWithParts built from one row of the listing.
ListedPersonne(row, gfa_count, sctl_count) ==
    row @@ [nb_parts_gfa |-> gfa_count,
            nb_parts_sctl |-> sctl_count,
            nb_parts_total |-> gfa_count + sctl_count]

SkipInputs == {0, 1}
LimitInputs == {1, MaxPersonnes}

get_personnes_with_parts ==
    /\ Idle
    /\ \E filters \in PersonneFilters, skip \in SkipInputs, limit \in LimitInputs :
        LET gfa_subquery == GroupedCounts(numeros_parts, structures, GFA)
            sctl_subquery == GroupedCounts(numeros_parts, structures, TSL)
            matching == {id \in Ids(personnes) : PersonneMatches(personnes[id], filters)}
            count == Cardinality({id \in Ids(personnes) :
                                    PersonneCountMatches(personnes[id], filters)})
        IN  \E order \in OrdersByName(personnes, matching) :
                LET results == Page(order, skip, limit)
                    data == [i \in DOMAIN results |->
                                ListedPersonne(personnes[results[i]],
                                               Coalesced(gfa_subquery, results[i]),
                                               Coalesced(sctl_subquery, results[i]))]
                IN  last' = Returned("get_personnes_with_parts",
                                     [filters |-> filters, skip |-> skip, limit |-> limit],
                                     [data |-> data, count |-> count], <<>>)
    /\ UNCHANGED <<tables, sessions>>

\* get_personnes: the count is taken over the statement of the page, before
\* order_by, offset and limit.
get_personnes ==
    /\ Idle
    /\ \E filters \in PersonneFilters, skip \in SkipInputs, limit \in LimitInputs :
        LET matching == {id \in Ids(personnes) : PersonneMatches(personnes[id], filters)}
            count == Cardinality(matching)
        IN  \E order \in OrdersByName(personnes, matching) :
                LET results == Page(order, skip, limit)
                IN  last' = Returned("get_personnes",
                                     [filters |-> filters, skip |-> skip, limit |-> limit],
                                     [data |-> [i \in DOMAIN results |->
                                                    personnes[results[i]]],
                                      count |-> count], <<>>)
    /\ UNCHANGED <<tables, sessions>>

-----------------------------------------------------------------------------
(* Mouvements and their listings. *)

\* ActeCreate payloads: a dated acte and an acte without date.  Dates are
\* written yyyymmdd.
ActeInputs ==
    { [code_acte |-> "AGE2020", date_acte |-> 20200101, provisoire |-> FALSE,
       id_structure |-> NULL],
      [code_acte |-> "PROV", date_acte |-> NULL, provisoire |-> TRUE,
       id_structure |-> NULL] }

create_acte ==
    /\ Idle
    /\ seq.actes < MaxActes
    /\ \E acte_in \in ActeInputs :
        LET id == seq.actes + 1
            db_obj == [id |-> id] @@ acte_in
        IN  /\ actes' = actes @@ (id :> db_obj)
            /\ seq' = [seq EXCEPT !.actes = id]
            /\ last' = Returned("create_acte", <<>>, id, <<>>)
    /\ UNCHANGED <<structures, personnes, mouvements, numeros_parts, sessions, cadastre>>

\* MouvementCreate payloads of the listings: dated by its acte only, dated by
\* its operation, without date nor acte, dated by both.
ListedMouvementInputs ==
    { [date_operation |-> NULL, sens |-> TRUE, nb_parts |-> 1,
       id_personne |-> 1, id_acte |-> 1],
      [date_operation |-> 20210601, sens |-> TRUE, nb_parts |-> 1,
       id_personne |-> 1, id_acte |-> NULL],
      [date_operation |-> NULL, sens |-> FALSE, nb_parts |-> 1,
       id_personne |-> 2, id_acte |-> NULL],
      [date_operation |-> 20190301, sens |-> FALSE, nb_parts |-> 1,
       id_personne |-> 1, id_acte |-> 1] }

\* The filters of the listings: id_personne and id_acte (NULL for None), sens
\* (<<>> for None).
MouvementFilters ==
    [id_personne : {NULL, 1}, id_acte : {NULL, 1}, sens : {<<>>, <<TRUE>>}]

MouvementMatches(row, filters) ==
    /\ filters.id_personne # NULL => row.id_personne = filters.id_personne
    /\ filters.id_acte # NULL => row.id_acte = filters.id_acte
    /\ filters.sens # <<>> => row.sens = filters.sens[1]

\* outerjoin(Acte, Mouvement.id_acte == Acte.id): the date_acte column of the
\* joined row, NULL when no acte is joined.
JoinedDateActe(acts, row) ==
    IF row.id_acte \in Ids(acts) THEN acts[row.id_acte].date_acte ELSE NULL

JoinedCodeActe(acts, row) ==
    IF row.id_acte \in Ids(acts) THEN acts[row.id_acte].code_acte ELSE "None"

\* func.coalesce(Mouvement.date_operation, Acte.date_acte)
EffectiveDate(acts, row) ==
    IF row.date_operation # NULL THEN row.date_operation ELSE JoinedDateActe(acts, row)

\* effective_date.desc() as PostgreSQL orders it: a NULL sorts as larger than
\* every value, so DESC puts the NULLs first (no nulls_last() is applied).
\* TRUE when a row with key a may come before a row with key b.
DescBefore(a, b) == a = NULL \/ (b # NULL /\ a >= b)

OrdersByEffectiveDateDesc(mouvs, acts, ids) ==
    {order \in SeqsUpTo(ids, Cardinality(ids)) :
        /\ Len(order) = Cardinality(ids)
        /\ Range(order) = ids
        /\ \A i, j \in DOMAIN order :
            i < j => DescBefore(EffectiveDate(acts, mouvs[order[i]]),
                                EffectiveDate(acts, mouvs[order[j]]))}

ListedLimitInputs == {1, MaxListed}

get_mouvements ==
    /\ Idle
    /\ \E filters \in MouvementFilters, skip \in SkipInputs, limit \in ListedLimitInputs :
        LET matching == {id \in Ids(mouvements) : MouvementMatches(mouvements[id], filters)}
            count == Cardinality(matching)
        IN  \E order \in OrdersByEffectiveDateDesc(mouvements, actes, matching) :
                LET results == Page(order, skip, limit)
                IN  last' = Returned("get_mouvements",
                                     [filters |-> filters, skip |-> skip, limit |-> limit],
                                     [data |-> [i \in DOMAIN results |-> mouvements[results[i]]],
                                      count |-> count], <<>>)
    /\ UNCHANGED <<tables, sessions>>

\* max_parts_display of get_mouvements_with_details
MaxPartsDisplay == 10

\* The num_part values of the given shares, ascending.
RECURSIVE NumPartsAscending(_, _)
NumPartsAscending(parts, ids) ==
    IF ids = {} THEN <<>>
    ELSE LET lowest == CHOOSE id \in ids :
                            \A other \in ids : parts[id].num_part <= parts[other].num_part
         IN  <<parts[lowest].num_part>> \o NumPartsAscending(parts, ids \ {lowest})

\* The MouvementWithDetails built from one row of the listing.
MouvementDetails(pers, acts, parts, row) ==
    LET linked == {id \in Ids(parts) : parts[id].id_mouvement = row.id}
    IN  row @@ [personne_nom |-> pers[row.id_personne].nom,
                personne_prenom |-> pers[row.id_personne].prenom,
                code_acte |-> JoinedCodeActe(acts, row),
                date_acte |-> JoinedDateActe(acts, row),
                numeros_parts |-> Page(NumPartsAscending(parts, linked), 0, MaxPartsDisplay),
                numeros_parts_count |-> Cardinality(linked)]

get_mouvements_with_details ==
    /\ Idle
    /\ \E filters \in MouvementFilters, skip \in SkipInputs, limit \in ListedLimitInputs :
        LET matching == {id \in Ids(mouvements) : MouvementMatches(mouvements[id], filters)}
            joined == {id \in matching : mouvements[id].id_personne \in Ids(personnes)}
            count == Cardinality(matching)
        IN  \E order \in OrdersByEffectiveDateDesc(mouvements, actes, joined) :
                LET results == Page(order, skip, limit)
                IN  last' = Returned("get_mouvements_with_details",
                                     [filters |-> filters, skip |-> skip, limit |-> limit],
                                     [data |-> [i \in DOMAIN results |->
                                                  MouvementDetails(personnes, actes,
                                                      numeros_parts, mouvements[results[i]])],
                                      count |-> count], <<>>)
    /\ UNCHANGED <<tables, sessions>>

-----------------------------------------------------------------------------
(* Fermage: decimal arithmetic and the rent formula. *)

RECURSIVE Pow10(_)
Pow10(n) == IF n = 0 THEN 1 ELSE 10 * Pow10(n - 1)

\* decimal.Decimal: the coefficient c and the number e of decimal places, for
\* the value c / 10^e.  Decimal("2.5") is Dec(25, 1).  The values of the
\* model stay far below the 28 digits of the default context, where every
\* operation below is exact.
Dec(c, e) == [c |-> c, e |-> e]

\* a * b: the coefficients multiply, the decimal places add.
DecMul(a, b) == Dec(a.c * b.c, a.e + b.e)

\* The zeros ending the digits of c, at most max of them.
RECURSIVE TrailingZeros(_, _)
TrailingZeros(c, max) ==
    IF max = 0 \/ c = 0 \/ c % 10 # 0 THEN 0
    ELSE 1 + TrailingZeros(c \div 10, max - 1)

\* a / Decimal("1" followed by k zeros): the quotient is exact; its zeros are
\* dropped as long as it keeps the decimal places of a (the ideal exponent).
DecDivPow10(a, k) ==
    IF a.c = 0 THEN a
    ELSE LET dropped == TrailingZeros(a.c, k)
         IN  Dec(a.c \div Pow10(dropped), a.e + k - dropped)

\* a + b: on the larger number of decimal places.
DecAdd(a, b) ==
    LET e == IF a.e > b.e THEN a.e ELSE b.e
    IN  Dec(a.c * Pow10(e - a.e) + b.c * Pow10(e - b.e), e)

\* Decimal.__eq__: equality of the values.
DecEq(a, b) ==
    LET e == IF a.e > b.e THEN a.e ELSE b.e
    IN  a.c * Pow10(e - a.e) = b.c * Pow10(e - b.e)

\* Mutant of CalculerMontantFermage: the supplement is added whether or not
\* it is active.
CalculerMontantFermageAlwaysSupp(point_fermage, surface, est_sctl, valeur_point_gfa, valeur_point_sctl, supp_gfa, supp_sctl, valeur_supp_gfa, valeur_supp_sctl) ==
    LET base == DecDivPow10(DecMul(point_fermage, surface), 4)
    IN  IF est_sctl
        THEN LET result == DecMul(base, valeur_point_sctl)
             IN  DecAdd(result, DecDivPow10(DecMul(result, valeur_supp_sctl), 2))
        ELSE LET result == DecMul(base, valeur_point_gfa)
             IN  DecAdd(result, DecDivPow10(DecMul(result, valeur_supp_gfa), 2))

\* calculer_montant_fermage
CalculerMontantFermage(point_fermage, surface, est_sctl, valeur_point_gfa, valeur_point_sctl, supp_gfa, supp_sctl, valeur_supp_gfa, valeur_supp_sctl) ==
    LET base == DecDivPow10(DecMul(point_fermage, surface), 4)
    IN  IF est_sctl
        THEN LET result == DecMul(base, valeur_point_sctl)
             IN  IF supp_sctl
                 THEN DecAdd(result, DecDivPow10(DecMul(result, valeur_supp_sctl), 2))
                 ELSE result
        ELSE LET result == DecMul(base, valeur_point_gfa)
             IN  IF supp_gfa
                 THEN DecAdd(result, DecDivPow10(DecMul(result, valeur_supp_gfa), 2))
                 ELSE result

\* The arguments of the calls: points, surfaces (hectares, up to 4 decimal
\* places), point values and supplement percentages.
PointInputs == {Dec(0, 0), Dec(10, 0), Dec(125, 1)}
SurfaceInputs == {Dec(0, 4), Dec(25, 1), Dec(4, 0)}
ValeurPointInputs == {Dec(169, 2), Dec(20, 1)}
ValeurSuppInputs == {Dec(5, 0), Dec(75, 1)}

FermageInputs ==
    [point_fermage : PointInputs, surface : SurfaceInputs, est_sctl : BOOLEAN,
     valeur_point_gfa : ValeurPointInputs, valeur_point_sctl : ValeurPointInputs,
     supp_gfa : BOOLEAN, supp_sctl : BOOLEAN,
     valeur_supp_gfa : ValeurSuppInputs, valeur_supp_sctl : ValeurSuppInputs]

calculer_montant_fermage ==
    /\ Idle
    /\ \E a \in FermageInputs :
        last' = Returned("calculer_montant_fermage", a,
                         CalculerMontantFermage(a.point_fermage, a.surface, a.est_sctl,
                                                a.valeur_point_gfa, a.valeur_point_sctl,
                                                a.supp_gfa, a.supp_sctl,
                                                a.valeur_supp_gfa, a.valeur_supp_sctl),
                         <<>>)
    /\ UNCHANGED <<tables, sessions>>

-----------------------------------------------------------------------------
(* The point values of the years. *)

\* The years a request may name.
AnneeInputs == {2023, 2024}

\* ValeurPointCreate payloads; a point value left at its default is 0.
ValeurPointCreateInputs ==
    [annee : AnneeInputs,
     valeur_point_gfa : {Dec(0, 0), Dec(169, 2)}, valeur_point_sctl : {Dec(20, 1)},
     valeur_supp_gfa : {Dec(5, 0)}, valeur_supp_sctl : {Dec(75, 1)}]

ValeurIdInputs == 1..(MaxValeurs + 1)

\* create_valeur_point: the row is inserted; annee is indexed, not unique.
CreateValeurPoint(inputs) ==
    /\ Idle
    /\ seq.valeurs_points < MaxValeurs
    /\ \E valeur_in \in inputs :
        LET id == seq.valeurs_points + 1
            db_obj == [id |-> id] @@ valeur_in
        IN  /\ valeurs_points' = valeurs_points @@ (id :> db_obj)
            /\ seq' = [seq EXCEPT !.valeurs_points = id]
            /\ last' = Returned("create_valeur_point", valeur_in, db_obj, valeurs_points)
    /\ UNCHANGED <<structures, personnes, mouvements, actes, numeros_parts, sessions,
                   parcelles, subdivisions>>

create_valeur_point == CreateValeurPoint(ValeurPointCreateInputs)

\* update_valeur_point, from its route: 404 when the row is missing, else
\* the fields of the payload are written; here the payload sets annee.
update_valeur_point ==
    /\ Idle
    /\ \E valeur_id \in ValeurIdInputs, annee \in AnneeInputs :
        LET args == [valeur_id |-> valeur_id, annee |-> annee]
        IN  IF valeur_id \in Ids(valeurs_points)
            THEN LET db_valeur == SqlmodelUpdate(valeurs_points[valeur_id], [annee |-> annee])
                 IN  /\ valeurs_points' = [valeurs_points EXCEPT ![valeur_id] = db_valeur]
                     /\ last' = Returned("update_valeur_point", args, db_valeur,
                                         valeurs_points)
            ELSE /\ UNCHANGED valeurs_points
                 /\ last' = Raised("update_valeur_point", args, "HTTP 404", valeurs_points)
    /\ UNCHANGED <<structures, personnes, mouvements, actes, numeros_parts, seq, sessions,
                   parcelles, subdivisions>>

\* get_valeur_point_by_annee: the rows first() may return, as <<row>>, or
\* <<>> for None.  The statement has no ORDER BY: with several rows of the
\* year the store returns any of them.
GetValeurPointByAnnee(table, annee) ==
    LET found == {id \in Ids(table) : table[id].annee = annee}
    IN  IF found = {} THEN {<<>>} ELSE {<<table[id]>> : id \in found}

\* The point values a route resolves: none without a year (if annee:).
ResolvedValeurPoint(table, annee) ==
    IF annee # NULL THEN GetValeurPointByAnnee(table, annee) ELSE {<<>>}

\* x or default, on a Decimal: 0 is false.
DecOr(x, default) == IF x.c = 0 THEN default ELSE x

\* float(x) of a Decimal: the value without the exponent of its
\* representation (values of at most 15 digits are told apart by a float).
RECURSIVE Float(_)
Float(x) ==
    IF x.c = 0 THEN Dec(0, 0)
    ELSE IF x.e > 0 /\ x.c % 10 = 0 THEN Float(Dec(x.c \div 10, x.e - 1))
    ELSE x

\* The body of the route calculate_fermage, for the row resolved.  The
\* point values are Decimal("1.0") and the supplements Decimal("0.0")
\* without a row, and in place of a 0 of the row; the supplement flags are
\* not passed and keep their default, False.
CalculateFermage(point_fermage, surface, sctl, annee, valeur_point) ==
    LET found == valeur_point # <<>>
        valeur_point_gfa == IF found THEN DecOr(valeur_point[1].valeur_point_gfa, Dec(10, 1))
                            ELSE Dec(10, 1)
        valeur_point_sctl == IF found THEN DecOr(valeur_point[1].valeur_point_sctl, Dec(10, 1))
                             ELSE Dec(10, 1)
        valeur_supp_gfa == IF found THEN DecOr(valeur_point[1].valeur_supp_gfa, Dec(0, 1))
                           ELSE Dec(0, 1)
        valeur_supp_sctl == IF found THEN DecOr(valeur_point[1].valeur_supp_sctl, Dec(0, 1))
                            ELSE Dec(0, 1)
        montant == CalculerMontantFermage(point_fermage, surface, sctl, valeur_point_gfa,
                                          valeur_point_sctl, FALSE, FALSE,
                                          valeur_supp_gfa, valeur_supp_sctl)
    IN  [point_fermage |-> Float(point_fermage), surface |-> Float(surface),
         sctl |-> sctl, annee |-> annee,
         valeur_point |-> Float(IF sctl THEN valeur_point_sctl ELSE valeur_point_gfa),
         montant_fermage |-> Float(montant)]

calculate_fermage ==
    /\ Idle
    /\ \E point_fermage \in PointInputs, surface \in SurfaceInputs, sctl \in BOOLEAN,
          annee \in {NULL} \cup AnneeInputs :
        \E valeur_point \in ResolvedValeurPoint(valeurs_points, annee) :
            last' = Returned("calculate_fermage",
                             [point_fermage |-> point_fermage, surface |-> surface,
                              sctl |-> sctl, annee |-> annee],
                             CalculateFermage(point_fermage, surface, sctl, annee,
                                              valeur_point),
                             valeur_point)
    /\ UNCHANGED <<tables, sessions>>

-----------------------------------------------------------------------------
(* Parcelles and subdivisions. *)

\* The communes and the exploitants loaded with the reference data; the
\* prenom of an exploitant is <<prenom>>, or <<>> for None.
SeedCommunes == (1 :> [id |-> 1, nom_com |-> "Millau"]) @@ (2 :> [id |-> 2, nom_com |-> "Nant"])

SeedExploitants ==
    (1 :> [id |-> 1, nom |-> "Dupont", prenom |-> <<"Jean">>])
    @@ (2 :> [id |-> 2, nom |-> "GAEC", prenom |-> <<>>])

\* ParcelleCreate payloads; parcelle is the rank of the cadastral reference
\* in the collation order of the store.
ParcelleInputs ==
    { [parcelle |-> 2, sctl |-> TRUE, id_commune |-> 1],
      [parcelle |-> 1, sctl |-> FALSE, id_commune |-> 2],
      [parcelle |-> 1, sctl |-> FALSE, id_commune |-> 3] }

ParcelleIdInputs == 1..(MaxParcelles + 1)

\* Parcelle: id_commune -> communes.id (required).
ParcelleForeignKeysHold(row) == row.id_commune \in Ids(SeedCommunes)

\* Subdivision: id_parcelle -> parcelles.id (required), id_exploitant ->
\* exploitants.id (optional).
SubdivisionForeignKeysHold(row, parcs) ==
    /\ row.id_parcelle \in Ids(parcs)
    /\ row.id_exploitant # NULL => row.id_exploitant \in Ids(SeedExploitants)

create_parcelle ==
    /\ Idle
    /\ seq.parcelles < MaxParcelles
    /\ \E parcelle_in \in ParcelleInputs :
        LET id == seq.parcelles + 1
            db_obj == [id |-> id] @@ parcelle_in
        IN  IF ParcelleForeignKeysHold(db_obj)
            THEN /\ parcelles' = parcelles @@ (id :> db_obj)
                 /\ seq' = [seq EXCEPT !.parcelles = id]
                 /\ last' = Returned("create_parcelle", <<>>, id, <<>>)
            ELSE /\ UNCHANGED <<parcelles, seq>>
                 /\ last' = Raised("create_parcelle", <<>>, "IntegrityError", <<>>)
    /\ UNCHANGED <<structures, personnes, mouvements, actes, numeros_parts, sessions,
                   valeurs_points, subdivisions>>

CreateSubdivision(inputs) ==
    /\ Idle
    /\ seq.subdivisions < MaxSubdivisions
    /\ \E subdivision_in \in inputs :
        LET id == seq.subdivisions + 1
            db_obj == [id |-> id] @@ subdivision_in
        IN  IF SubdivisionForeignKeysHold(db_obj, parcelles)
            THEN /\ subdivisions' = subdivisions @@ (id :> db_obj)
                 /\ seq' = [seq EXCEPT !.subdivisions = id]
                 /\ last' = Returned("create_subdivision", <<>>, id, <<>>)
            ELSE /\ UNCHANGED <<subdivisions, seq>>
                 /\ last' = Raised("create_subdivision", <<>>, "IntegrityError", <<>>)
    /\ UNCHANGED <<structures, personnes, mouvements, actes, numeros_parts, sessions,
                   valeurs_points, parcelles>>

\* f"{nom} {prenom or ''}".strip() of sub.exploitant: the words of the
\* name, <<>> for None (no exploitant).
NomExploitant(id_exploitant) ==
    IF id_exploitant = NULL THEN <<>>
    ELSE <<SeedExploitants[id_exploitant].nom>> \o SeedExploitants[id_exploitant].prenom

\* order_by(Subdivision.division, Subdivision.subdivision)
DivisionOrdered(subs, a, b) ==
    \/ subs[a].division < subs[b].division
    \/ subs[a].division = subs[b].division /\ subs[a].subdivision <= subs[b].subdivision

\* The subdivisions of a parcelle.
SubdivisionsOf(subs, parcelle_id) == {id \in Ids(subs) : subs[id].id_parcelle = parcelle_id}

-----------------------------------------------------------------------------
(* Rent of the subdivisions: totals and parcel detail. *)

\* SubdivisionCreate payloads of the rent specification: a rented
\* subdivision, one without points, one without tenant.
FermageSubdivisionBases ==
    { [division |-> 1, subdivision |-> 1, surface |-> Dec(25, 1), revenu |-> Dec(125, 1),
       point_fermage |-> Dec(10, 0), id_exploitant |-> 1, id_type_fermage |-> 1],
      [division |-> 1, subdivision |-> 2, surface |-> Dec(4, 0), revenu |-> Dec(3, 0),
       point_fermage |-> Dec(0, 0), id_exploitant |-> 2, id_type_fermage |-> NULL],
      [division |-> 2, subdivision |-> 1, surface |-> Dec(4, 0), revenu |-> Dec(3, 0),
       point_fermage |-> Dec(125, 1), id_exploitant |-> NULL, id_type_fermage |-> 1] }

FermageSubdivisionInputs ==
    {base @@ [id_parcelle |-> p] : base \in FermageSubdivisionBases, p \in ParcelleIdInputs}

\* The point values the rent specification stores: one year.
FermageValeurInputs ==
    {v \in ValeurPointCreateInputs : v.annee = 2024 /\ v.valeur_point_gfa = Dec(169, 2)}

\* The sum of the decimals f[id], id in ids, from Decimal("0").
RECURSIVE DecSum(_, _)
DecSum(f, ids) ==
    IF ids = {} THEN Dec(0, 0)
    ELSE LET id == CHOOSE x \in ids : \A y \in ids : x <= y
         IN  DecAdd(f[id], DecSum(f, ids \ {id}))

\* The filters of get_fermage_totaux; <<>> is None for the flag.
FermageFilters ==
    [id_exploitant : {NULL, 1}, id_commune : {NULL, 1}, sctl : {<<>>, <<TRUE>>, <<FALSE>>}]

\* select(Subdivision).join(Parcelle, ...) and the where clauses.
FermageMatches(subs, parcs, filters) ==
    {id \in Ids(subs) :
        /\ subs[id].id_parcelle \in Ids(parcs)
        /\ filters.id_exploitant # NULL => subs[id].id_exploitant = filters.id_exploitant
        /\ filters.id_commune # NULL =>
                parcs[subs[id].id_parcelle].id_commune = filters.id_commune
        /\ filters.sctl # <<>> => parcs[subs[id].id_parcelle].sctl = filters.sctl[1]}

\* Mutant of MontantSubdivision: the supplements are active.
MontantSubdivisionWithSupp(sub, est_sctl, valeur_point) ==
    CalculerMontantFermage(sub.point_fermage, sub.surface, est_sctl,
                           valeur_point.valeur_point_gfa, valeur_point.valeur_point_sctl,
                           TRUE, TRUE,
                           valeur_point.valeur_supp_gfa, valeur_point.valeur_supp_sctl)

\* The rent of one subdivision as the aggregate and the detail compute it:
\* the supplement flags are not passed.
MontantSubdivision(sub, est_sctl, valeur_point) ==
    CalculerMontantFermage(sub.point_fermage, sub.surface, est_sctl,
                           valeur_point.valeur_point_gfa, valeur_point.valeur_point_sctl,
                           FALSE, FALSE,
                           valeur_point.valeur_supp_gfa, valeur_point.valeur_supp_sctl)

\* Mutant of GetFermageTotaux: the sctl flag of the filters decides the
\* point value of every subdivision.
GetFermageTotauxOneFlag(subs, parcs, filters, valeur_point) ==
    LET matching == FermageMatches(subs, parcs, filters)
    IN  [total_surface |-> DecSum([id \in matching |-> subs[id].surface], matching),
         total_revenu |-> DecSum([id \in matching |-> subs[id].revenu], matching),
         total_montant |->
            IF valeur_point = <<>> THEN Dec(0, 0)
            ELSE DecSum([id \in matching |->
                            MontantSubdivision(subs[id], filters.sctl = <<TRUE>>,
                                               valeur_point[1])], matching),
         nb_parcelles |-> Cardinality({subs[id].id_parcelle : id \in matching})]

\* Mutant of GetFermageTotaux: nb_parcelles counts the subdivisions.
GetFermageTotauxCountingSubdivisions(subs, parcs, filters, valeur_point) ==
    LET matching == FermageMatches(subs, parcs, filters)
    IN  [total_surface |-> DecSum([id \in matching |-> subs[id].surface], matching),
         total_revenu |-> DecSum([id \in matching |-> subs[id].revenu], matching),
         total_montant |->
            IF valeur_point = <<>> THEN Dec(0, 0)
            ELSE DecSum([id \in matching |->
                            MontantSubdivision(subs[id], parcs[subs[id].id_parcelle].sctl,
                                               valeur_point[1])], matching),
         nb_parcelles |-> Cardinality(matching)]

\* get_fermage_totaux; valeur_point is <<row>>, or <<>> for None.
GetFermageTotaux(subs, parcs, filters, valeur_point) ==
    LET matching == FermageMatches(subs, parcs, filters)
    IN  [total_surface |-> DecSum([id \in matching |-> subs[id].surface], matching),
         total_revenu |-> DecSum([id \in matching |-> subs[id].revenu], matching),
         total_montant |->
            IF valeur_point = <<>> THEN Dec(0, 0)
            ELSE DecSum([id \in matching |->
                            MontantSubdivision(subs[id], parcs[subs[id].id_parcelle].sctl,
                                               valeur_point[1])], matching),
         nb_parcelles |-> Cardinality({subs[id].id_parcelle : id \in matching})]

\* The route get_fermages_totaux: the point values of the year, if a year
\* is given, then the aggregate.
get_fermages_totaux ==
    /\ Idle
    /\ \E filters \in FermageFilters, annee \in {NULL} \cup AnneeInputs :
        \E valeur_point \in ResolvedValeurPoint(valeurs_points, annee) :
            last' = Returned("get_fermages_totaux",
                             [filters |-> filters, annee |-> annee],
                             GetFermageTotaux(subdivisions, parcelles, filters, valeur_point),
                             valeur_point)
    /\ UNCHANGED <<tables, sessions>>

\* The rows .order_by(division, subdivision).limit(1).first() may return:
\* <<row>> for a subdivision no other one comes before, <<>> for None.
FirstSubdivisions(subs, parcelle_id) ==
    LET own == SubdivisionsOf(subs, parcelle_id)
    IN  IF own = {} THEN {<<>>}
        ELSE {<<subs[id]>> : id \in {a \in own : \A b \in own : DivisionOrdered(subs, a, b)}}

\* crud.get_parcelle_with_details: <<ParcelleWithDetails>>, or <<>> for
\* None.  first_subdivision is the row the store returned first.
GetParcelleWithDetails(parcs, parcelle_id, first_subdivision, valeur_point) ==
    IF parcelle_id \notin Ids(parcs) THEN <<>>
    ELSE LET parcelle == parcs[parcelle_id]
         IN  << parcelle @@
                [nom_commune |-> SeedCommunes[parcelle.id_commune].nom_com,
                 nom_exploitant |->
                    IF first_subdivision = <<>> THEN <<>>
                    ELSE NomExploitant(first_subdivision[1].id_exploitant),
                 montant_fermage |->
                    IF first_subdivision # <<>> /\ valeur_point # <<>>
                    THEN MontantSubdivision(first_subdivision[1], parcelle.sctl,
                                            valeur_point[1])
                    ELSE Dec(0, 0)] >>

\* The core function, called as its signature asks: with the row of the
\* year, or None.
get_parcelle_with_details ==
    /\ Idle
    /\ \E parcelle_id \in ParcelleIdInputs,
          valeur_point \in {<<>>} \cup {<<valeurs_points[id]>> : id \in Ids(valeurs_points)} :
        \E first_subdivision \in FirstSubdivisions(subdivisions, parcelle_id) :
            last' = Returned("get_parcelle_with_details",
                             [parcelle_id |-> parcelle_id, valeur_point |-> valeur_point],
                             GetParcelleWithDetails(parcelles, parcelle_id,
                                                    first_subdivision, valeur_point),
                             first_subdivision)
    /\ UNCHANGED <<tables, sessions>>

\* The keyword parameters of crud.get_parcelle_with_details, and the
\* keywords the route read_parcelle_with_details passes.
DetailsParameters == {"session", "parcelle_id", "valeur_point"}
DetailsKeywords == {"session", "parcelle_id", "annee"}

\* The route read_parcelle_with_details.  A keyword that is no parameter of
\* the function called is a TypeError of the call.
read_parcelle_with_details ==
    /\ Idle
    /\ \E parcelle_id \in ParcelleIdInputs, annee \in {NULL} \cup AnneeInputs :
        LET args == [parcelle_id |-> parcelle_id, annee |-> annee]
        IN  IF DetailsKeywords \subseteq DetailsParameters
            THEN \E first_subdivision \in FirstSubdivisions(subdivisions, parcelle_id) :
                    LET parcelle_details ==
                            GetParcelleWithDetails(parcelles, parcelle_id,
                                                   first_subdivision, <<>>)
                    IN  last' = IF parcelle_details = <<>>
                                THEN Raised("read_parcelle_with_details", args,
                                            "HTTP 404", <<>>)
                                ELSE Returned("read_parcelle_with_details", args,
                                              parcelle_details[1], <<>>)
            ELSE last' = Raised("read_parcelle_with_details", args, "TypeError", <<>>)
    /\ UNCHANGED <<tables, sessions>>

-----------------------------------------------------------------------------
(* The listing of the parcelles with their subdivisions. *)

\* SubdivisionCreate payloads of the listing: two subdivisions with the same
\* (division, subdivision), one that comes after them and one that comes
\* before; tenants and types of fermage cross.
ListingSubdivisionBases ==
    { [division |-> 2, subdivision |-> 1, surface |-> Dec(25, 1), revenu |-> Dec(3, 0),
       point_fermage |-> Dec(0, 0), id_exploitant |-> 1, id_type_fermage |-> 1],
      [division |-> 1, subdivision |-> 2, surface |-> Dec(4, 0), revenu |-> Dec(3, 0),
       point_fermage |-> Dec(0, 0), id_exploitant |-> 2, id_type_fermage |-> 2],
      [division |-> 1, subdivision |-> 2, surface |-> Dec(5, 1), revenu |-> Dec(3, 0),
       point_fermage |-> Dec(0, 0), id_exploitant |-> NULL, id_type_fermage |-> NULL],
      [division |-> 1, subdivision |-> 1, surface |-> Dec(4, 0), revenu |-> Dec(3, 0),
       point_fermage |-> Dec(0, 0), id_exploitant |-> 1, id_type_fermage |-> 2] }

ListingSubdivisionInputs ==
    {base @@ [id_parcelle |-> p] : base \in ListingSubdivisionBases, p \in 1..MaxParcelles}

\* The filters of the listing modelled here: id_commune and sctl on the
\* parcelle, id_exploitant and id_type_fermage on its subdivisions (NULL and
\* <<>> for None).  id_lieu_dit, id_type_cadastre and id_gfa are where
\* clauses of the shape of id_commune.
ListingFilters ==
    [id_commune : {NULL, 1}, sctl : {<<>>, <<FALSE>>},
     id_exploitant : {NULL, 1}, id_type_fermage : {NULL, 2}]

ListingSkipInputs == {0, 1}
ListingLimitInputs == {1, 100}

\* The where clauses on Parcelle.
ParcelleMatches(row, filters) ==
    /\ filters.id_commune # NULL => row.id_commune = filters.id_commune
    /\ filters.sctl # <<>> => row.sctl = filters.sctl[1]

\* Mutant of ParcelleIdsOfSubdivisions: each child filter is matched by some
\* subdivision of the parcelle, not both by the same one.
ParcelleIdsOfSubdivisionsApart(subs, filters) ==
    {p \in {subs[id].id_parcelle : id \in Ids(subs)} :
        /\ filters.id_exploitant # NULL =>
                \E id \in SubdivisionsOf(subs, p) :
                    subs[id].id_exploitant = filters.id_exploitant
        /\ filters.id_type_fermage # NULL =>
                \E id \in SubdivisionsOf(subs, p) :
                    subs[id].id_type_fermage = filters.id_type_fermage}

\* select(Subdivision.id_parcelle).distinct() with the where clauses of the
\* child filters given.
ParcelleIdsOfSubdivisions(subs, filters) ==
    {subs[id].id_parcelle : id \in
        {s \in Ids(subs) :
            /\ filters.id_exploitant # NULL =>
                    subs[s].id_exploitant = filters.id_exploitant
            /\ filters.id_type_fermage # NULL =>
                    subs[s].id_type_fermage = filters.id_type_fermage}}

\* The statement once every filter given is applied: the ids of its rows.
ListingMatching(parcs, subs, filters) ==
    LET base == {id \in Ids(parcs) : ParcelleMatches(parcs[id], filters)}
    IN  IF filters.id_exploitant # NULL \/ filters.id_type_fermage # NULL
        THEN base \cap ParcelleIdsOfSubdivisions(subs, filters)
        ELSE base

\* order_by(Parcelle.parcelle): rows with the same reference come in any
\* order.
OrdersByParcelle(parcs, ids) ==
    {order \in SeqsUpTo(ids, Cardinality(ids)) :
        /\ Len(order) = Cardinality(ids)
        /\ Range(order) = ids
        /\ \A i, j \in DOMAIN order :
                i < j => parcs[order[i]].parcelle <= parcs[order[j]].parcelle}

\* The subdivisions of a parcelle as the store may return them under
\* order_by(Subdivision.division, Subdivision.subdivision).
OrdersByDivision(subs, ids) ==
    {order \in SeqsUpTo(ids, Cardinality(ids)) :
        /\ Len(order) = Cardinality(ids)
        /\ Range(order) = ids
        /\ \A i, j \in DOMAIN order : i < j => DivisionOrdered(subs, order[i], order[j])}

SubdivisionSummary(sub) ==
    [id |-> sub.id, division |-> sub.division, subdivision |-> sub.subdivision,
     surface |-> sub.surface, nom_exploitant |-> NomExploitant(sub.id_exploitant),
     id_exploitant |-> sub.id_exploitant]

\* Mutant of ListedParcelle: the first_* fields are those of the last
\* subdivision read.
ListedParcelleLast(parcelle, subs, order) ==
    LET n == Len(order)
    IN  parcelle @@
        [nom_commune |-> SeedCommunes[parcelle.id_commune].nom_com,
         total_surface |-> DecSum([id \in Range(order) |-> subs[id].surface], Range(order)),
         nb_subdivisions |-> n,
         first_division |-> IF n = 0 THEN NULL ELSE subs[order[n]].division,
         first_exploitant |->
            IF n = 0 THEN <<>> ELSE NomExploitant(subs[order[n]].id_exploitant),
         first_exploitant_id |-> IF n = 0 THEN NULL ELSE subs[order[n]].id_exploitant,
         subdivisions |-> [i \in DOMAIN order |-> SubdivisionSummary(subs[order[i]])]]

\* The ParcelleWithSubdivisions built for one parcelle; order: its
\* subdivisions as the store returned them.
ListedParcelle(parcelle, subs, order) ==
    LET n == Len(order)
    IN  parcelle @@
        [nom_commune |-> SeedCommunes[parcelle.id_commune].nom_com,
         total_surface |-> DecSum([id \in Range(order) |-> subs[id].surface], Range(order)),
         nb_subdivisions |-> n,
         first_division |-> IF n = 0 THEN NULL ELSE subs[order[1]].division,
         first_exploitant |->
            IF n = 0 THEN <<>> ELSE NomExploitant(subs[order[1]].id_exploitant),
         first_exploitant_id |-> IF n = 0 THEN NULL ELSE subs[order[1]].id_exploitant,
         subdivisions |-> [i \in DOMAIN order |-> SubdivisionSummary(subs[order[i]])]]

\* get_parcelles_with_subdivisions, as the route read_parcelles calls it.
get_parcelles_with_subdivisions ==
    /\ Idle
    /\ \E filters \in ListingFilters, skip \in ListingSkipInputs, limit \in ListingLimitInputs :
        LET matching == ListingMatching(parcelles, subdivisions, filters)
            count == Cardinality(matching)
        IN  \E rows \in OrdersByParcelle(parcelles, matching) :
                LET page == Page(rows, skip, limit)
                IN  \E orders \in [Range(page) ->
                                   SeqsUpTo(Ids(subdivisions), Cardinality(Ids(subdivisions)))] :
                        /\ \A p \in Range(page) :
                                orders[p] \in OrdersByDivision(subdivisions,
                                                  SubdivisionsOf(subdivisions, p))
                        /\ last' = Returned("get_parcelles_with_subdivisions",
                                            [filters |-> filters, skip |-> skip,
                                             limit |-> limit],
                                            [data |-> [i \in DOMAIN page |->
                                                        ListedParcelle(parcelles[page[i]],
                                                                       subdivisions,
                                                                       orders[page[i]])],
                                             count |-> count],
                                            <<>>)
    /\ UNCHANGED <<tables, sessions>>

-----------------------------------------------------------------------------
(* update_numero_part and the anomaly queries. *)

\* NumeroPartUpdate payloads as model_dump(exclude_unset=True) gives them:
\* the fields the request sets; here it sets id_mouvement, to a mouvement or
\* to None.
PartUpdateInputs == {[id_mouvement |-> m] : m \in {NULL} \cup MouvementIdInputs}

\* The route update_numero_part: 404 when the part is missing, else the
\* fields of the payload are written and committed.
UpdateNumeroPart(inputs) ==
    /\ Idle
    /\ \E part_id \in PartIdInputs, part_data \in inputs :
        LET args == [part_id |-> part_id, part_in |-> part_data]
        IN  IF part_id \notin Ids(numeros_parts)
            THEN /\ UNCHANGED numeros_parts
                 /\ last' = Raised("update_numero_part", args, "HTTP 404", numeros_parts)
            ELSE LET db_part == SqlmodelUpdate(numeros_parts[part_id], part_data)
                 IN  IF PartForeignKeysHold(db_part, personnes, mouvements, structures)
                     THEN /\ numeros_parts' = [numeros_parts EXCEPT ![part_id] = db_part]
                          /\ last' = Returned("update_numero_part", args, db_part,
                                              numeros_parts)
                     ELSE /\ UNCHANGED numeros_parts
                          /\ last' = Raised("update_numero_part", args, "IntegrityError",
                                            numeros_parts)
    /\ UNCHANGED <<structures, personnes, mouvements, actes, seq, sessions, cadastre>>

update_numero_part == UpdateNumeroPart(PartUpdateInputs)

\* Payloads that set the number, the structure (the last one names no
\* structure) or the flag termine of a share, and the update they are sent
\* with.
PartFieldUpdateInputs ==
    {[num_part |-> 1], [id_structure |-> 2], [termine |-> TRUE],
     [num_part |-> 4, id_structure |-> 1], [id_structure |-> 4]}

update_numero_part_fields == UpdateNumeroPart(PartFieldUpdateInputs)

\* get_numero_part_by_num: the rows first() may return, as <<row>>, or
\* <<>> for None.  The statement has no ORDER BY.
GetNumeroPartByNum(parts, num_part, id_structure) ==
    LET matching == {id \in Ids(parts) :
                        /\ parts[id].num_part = num_part
                        /\ id_structure # NULL => parts[id].id_structure = id_structure}
    IN  IF matching = {} THEN {<<>>} ELSE {<<parts[id]>> : id \in matching}

get_numero_part_by_num ==
    /\ Idle
    /\ \E num_part \in {1, 4}, id_structure \in {NULL, 1, 2} :
        \E part \in GetNumeroPartByNum(numeros_parts, num_part, id_structure) :
            last' = Returned("get_numero_part_by_num",
                             [num_part |-> num_part, id_structure |-> id_structure],
                             part, <<>>)
    /\ UNCHANGED <<tables, sessions>>

\* The rows of a statement without ORDER BY: each once, in any order.
AnyOrder(rows) ==
    {order \in SeqsUpTo(rows, Cardinality(rows)) :
        Len(order) = Cardinality(rows) /\ Range(order) = rows}

\* The id_structure a request of the anomaly routes may give (NULL for None).
StructureFilterInputs == {NULL, 1}

\* Mutant of PartsSansMouvements: the restriction to the structure is lost.
PartsSansMouvementsUnscoped(parts, id_structure) ==
    {id \in Ids(parts) : parts[id].id_mouvement = NULL}

\* find_parts_sans_mouvements: the ids of the rows of its statement.
PartsSansMouvements(parts, id_structure) ==
    {id \in Ids(parts) :
        /\ parts[id].id_mouvement = NULL
        /\ id_structure # NULL => parts[id].id_structure = id_structure}

\* Mutant of MouvementsJoinPersonne: the join has no ON condition.
MouvementsCrossPersonne(mvts, pers) ==
    {<<m, p>> : m \in Ids(mvts), p \in Ids(pers)}

\* join(Personne, Mouvement.id_personne == Personne.id): the pairs
\* (mouvement, personne) of the inner join.
MouvementsJoinPersonne(mvts, pers) ==
    {pair \in Ids(mvts) \X Ids(pers) : mvts[pair[1]].id_personne = pair[2]}

\* find_mouvements_sans_actes: the rows of its statement, as the id of the
\* mouvement and, under the join, the id of the personne joined.
MouvementsSansActes(mvts, pers, id_structure) ==
    IF id_structure = NULL
    THEN {<<m>> : m \in {id \in Ids(mvts) : mvts[id].id_acte = NULL}}
    ELSE {pair \in MouvementsJoinPersonne(mvts, pers) :
            /\ mvts[pair[1]].id_acte = NULL
            /\ pers[pair[2]].id_structure = id_structure}

\* The route get_parts_sans_mouvements.
get_parts_sans_mouvements ==
    /\ Idle
    /\ \E id_structure \in StructureFilterInputs :
        \E order \in AnyOrder(PartsSansMouvements(numeros_parts, id_structure)) :
            last' = Returned("get_parts_sans_mouvements", id_structure,
                             [i \in DOMAIN order |-> numeros_parts[order[i]]], <<>>)
    /\ UNCHANGED <<tables, sessions>>

\* The route get_mouvements_sans_actes.
get_mouvements_sans_actes ==
    /\ Idle
    /\ \E id_structure \in StructureFilterInputs :
        \E order \in AnyOrder(MouvementsSansActes(mouvements, personnes, id_structure)) :
            last' = Returned("get_mouvements_sans_actes", id_structure,
                             [i \in DOMAIN order |-> mouvements[order[i][1]]], <<>>)
    /\ UNCHANGED <<tables, sessions>>

\* The route get_anomalies_summary: the lengths of the two lists.
get_anomalies_summary ==
    /\ Idle
    /\ \E id_structure \in StructureFilterInputs :
        LET parts_sans_mvt == PartsSansMouvements(numeros_parts, id_structure)
            mvt_sans_actes == MouvementsSansActes(mouvements, personnes, id_structure)
        IN  last' = Returned("get_anomalies_summary", id_structure,
                        [parts_sans_mouvements |->
                            [count |-> Cardinality(parts_sans_mvt),
                             description |-> "Numeros de parts sans mouvements associes"],
                         mouvements_sans_actes |->
                            [count |-> Cardinality(mvt_sans_actes),
                             description |-> "Mouvements sans actes associes"],
                         total_anomalies |->
                            Cardinality(parts_sans_mvt) + Cardinality(mvt_sans_actes)],
                        <<>>)
    /\ UNCHANGED <<tables, sessions>>

-----------------------------------------------------------------------------
(* Personnes morales and their members. *)

\* PersonneCreate payloads that name a personne morale: id_personne_morale
\* is any id a request may give, or None.
MemberPersonneInputs ==
    [nom : {1}, prenom : {1}, id_structure : {NULL}, est_personne_morale : BOOLEAN,
     id_personne_morale : {NULL} \cup PersonneIdInputs]

\* Personne: id_personne_morale -> personnes.id (optional).  The store checks
\* the key once the statement has run, so a row may name itself.
PersonneForeignKeysHold(row, pers) ==
    row.id_personne_morale # NULL => row.id_personne_morale \in Ids(pers) \cup {row.id}

\* create_personne, for the payloads that name a personne morale.
create_member_personne ==
    /\ Idle
    /\ seq.personnes < MaxPersonnes
    /\ \E personne_in \in MemberPersonneInputs :
        LET id == seq.personnes + 1
            db_obj == [id |-> id] @@ personne_in
        IN  IF PersonneForeignKeysHold(db_obj, personnes)
            THEN /\ personnes' = personnes @@ (id :> db_obj)
                 /\ seq' = [seq EXCEPT !.personnes = id]
                 /\ last' = Returned("create_personne", personne_in, db_obj, personnes)
            ELSE /\ UNCHANGED <<personnes, seq>>
                 /\ last' = Raised("create_personne", personne_in, "IntegrityError",
                                   personnes)
    /\ UNCHANGED <<structures, mouvements, actes, numeros_parts, sessions, cadastre>>

\* PersonneUpdate payloads as model_dump(exclude_unset=True) gives them: the
\* request sets id_personne_morale, or est_personne_morale, or nom.
PersonneUpdateInputs ==
    {[id_personne_morale |-> m] : m \in {NULL} \cup PersonneIdInputs}
    \cup {[est_personne_morale |-> b] : b \in BOOLEAN}
    \cup {[nom |-> 2]}

\* The route update_personne: 404 when the personne is missing, else the
\* fields of the payload are written and committed.
UpdatePersonne(inputs) ==
    /\ Idle
    /\ \E personne_id \in PersonneIdInputs, personne_data \in inputs :
        LET args == [personne_id |-> personne_id, personne_in |-> personne_data]
        IN  IF personne_id \notin Ids(personnes)
            THEN /\ UNCHANGED personnes
                 /\ last' = Raised("update_personne", args, "HTTP 404", personnes)
            ELSE LET db_personne == SqlmodelUpdate(personnes[personne_id], personne_data)
                 IN  IF PersonneForeignKeysHold(db_personne, personnes)
                     THEN /\ personnes' = [personnes EXCEPT ![personne_id] = db_personne]
                          /\ last' = Returned("update_personne", args, db_personne,
                                              personnes)
                     ELSE /\ UNCHANGED personnes
                          /\ last' = Raised("update_personne", args, "IntegrityError",
                                            personnes)
    /\ UNCHANGED <<structures, mouvements, actes, numeros_parts, seq, sessions, cadastre>>

update_personne == UpdatePersonne(PersonneUpdateInputs)

\* Payloads that set the name or the personne morale of a personne, and the
\* update they are sent with.
PersonneFieldUpdateInputs == {[nom |-> 2], [id_personne_morale |-> 2, nom |-> 1]}

update_personne_fields == UpdatePersonne(PersonneFieldUpdateInputs)

-----------------------------------------------------------------------------
(* Parcelles deleted and subdivisions updated. *)

\* Mutant of CadastreCommitAccepted: Subdivision.id_parcelle may be NULL.
CadastreCommitAcceptedNullable(parcs, subs) ==
    \A id \in Ids(subs) :
        /\ subs[id].id_parcelle # NULL => subs[id].id_parcelle \in Ids(parcs)
        /\ subs[id].id_exploitant # NULL => subs[id].id_exploitant \in Ids(SeedExploitants)

\* What the store asks of the rows a commit leaves: Subdivision.id_parcelle
\* is NOT NULL (an int without default) and a foreign key to parcelles.id.
CadastreCommitAccepted(parcs, subs) ==
    \A id \in Ids(subs) :
        /\ subs[id].id_parcelle # NULL
        /\ SubdivisionForeignKeysHold(subs[id], parcs)

\* The flush of session.delete(db_parcelle): Parcelle.subdivisions has no
\* delete cascade, so the unit of work sets id_parcelle of the subdivisions
\* of the collection to NULL, then deletes the parcelle.
DeletedParcelle(parcs, subs, parcelle_id) ==
    [parcelles |-> Without(parcs, parcelle_id),
     subdivisions |->
        [id \in Ids(subs) |->
            IF subs[id].id_parcelle = parcelle_id
            THEN [subs[id] EXCEPT !.id_parcelle = NULL]
            ELSE subs[id]]]

\* delete_parcelle, from its route: 404 when the parcelle is missing.
delete_parcelle ==
    /\ Idle
    /\ \E parcelle_id \in ParcelleIdInputs :
        LET pre == [parcelles |-> parcelles, subdivisions |-> subdivisions]
        IN  IF parcelle_id \notin Ids(parcelles)
            THEN /\ UNCHANGED <<parcelles, subdivisions>>
                 /\ last' = Raised("delete_parcelle", parcelle_id, "HTTP 404", pre)
            ELSE LET written == DeletedParcelle(parcelles, subdivisions, parcelle_id)
                 IN  IF CadastreCommitAccepted(written.parcelles, written.subdivisions)
                     THEN /\ parcelles' = written.parcelles
                          /\ subdivisions' = written.subdivisions
                          /\ last' = Returned("delete_parcelle", parcelle_id, TRUE, pre)
                     ELSE /\ UNCHANGED <<parcelles, subdivisions>>
                          /\ last' = Raised("delete_parcelle", parcelle_id,
                                            "IntegrityError", pre)
    /\ UNCHANGED <<structures, personnes, mouvements, actes, numeros_parts, seq, sessions,
                   valeurs_points>>

\* SubdivisionUpdate payloads as model_dump(exclude_unset=True) gives them:
\* the request sets id_parcelle (to a parcelle or to None), or the surface,
\* or the tenant.
SubdivisionUpdateInputs ==
    {[id_parcelle |-> p] : p \in {NULL} \cup ParcelleIdInputs}
    \cup {[surface |-> Dec(5, 1)], [id_exploitant |-> NULL]}

\* update_subdivision, called with a subdivision of the store.
update_subdivision ==
    /\ Idle
    /\ \E subdivision_id \in Ids(subdivisions), subdivision_data \in SubdivisionUpdateInputs :
        LET args == [subdivision_id |-> subdivision_id, subdivision_in |-> subdivision_data]
            db_subdivision == SqlmodelUpdate(subdivisions[subdivision_id], subdivision_data)
            written == [subdivisions EXCEPT ![subdivision_id] = db_subdivision]
        IN  IF CadastreCommitAccepted(parcelles, written)
            THEN /\ subdivisions' = written
                 /\ last' = Returned("update_subdivision", args, db_subdivision,
                                     subdivisions)
            ELSE /\ UNCHANGED subdivisions
                 /\ last' = Raised("update_subdivision", args, "IntegrityError",
                                   subdivisions)
    /\ UNCHANGED <<structures, personnes, mouvements, actes, numeros_parts, seq, sessions,
                   valeurs_points, parcelles>>

-----------------------------------------------------------------------------
(* Mouvements deleted. *)

\* The flush of session.delete(db_mouvement): Mouvement.numeros_parts has no
\* delete cascade, so the unit of work sets id_mouvement of the shares of the
\* collection to NULL, then deletes the mouvement.
DeletedMouvement(mvts, parts, mouvement_id) ==
    [mouvements |-> Without(mvts, mouvement_id),
     numeros_parts |->
        [id \in Ids(parts) |->
            IF parts[id].id_mouvement = mouvement_id
            THEN [parts[id] EXCEPT !.id_mouvement = NULL]
            ELSE parts[id]]]

\* delete_mouvement, from its route: 404 when the mouvement is missing.
delete_mouvement ==
    /\ Idle
    /\ \E mouvement_id \in MouvementIdInputs :
        LET pre == [mouvements |-> mouvements, numeros_parts |-> numeros_parts]
        IN  IF mouvement_id \notin Ids(mouvements)
            THEN /\ UNCHANGED <<mouvements, numeros_parts>>
                 /\ last' = Raised("delete_mouvement", mouvement_id, "HTTP 404", pre)
            ELSE LET written == DeletedMouvement(mouvements, numeros_parts, mouvement_id)
                 IN  IF CommitAccepted(written.numeros_parts, personnes,
                                       written.mouvements, structures)
                     THEN /\ mouvements' = written.mouvements
                          /\ numeros_parts' = written.numeros_parts
                          /\ last' = Returned("delete_mouvement", mouvement_id, TRUE, pre)
                     ELSE /\ UNCHANGED <<mouvements, numeros_parts>>
                          /\ last' = Raised("delete_mouvement", mouvement_id,
                                            "IntegrityError", pre)
    /\ UNCHANGED <<structures, personnes, actes, seq, sessions, cadastre>>

-----------------------------------------------------------------------------
(* The ledger served request by request. *)

Init ==
    /\ structures = SeedStructures
    /\ personnes = <<>>
    /\ mouvements = <<>>
    /\ actes = <<>>
    /\ numeros_parts = <<>>
    /\ seq = [personnes |-> 0, mouvements |-> 0, actes |-> 0, numeros_parts |-> 0,
              valeurs_points |-> 0, parcelles |-> 0, subdivisions |-> 0]
    /\ last = NoRequest
    /\ sessions = [s \in SessionIds |-> NoSession]
    /\ valeurs_points = <<>>
    /\ parcelles = <<>>
    /\ subdivisions = <<>>

create_personne == CreatePersonne(LedgerPersonneInputs)

create_mouvement == CreateMouvement(MouvementInputs, MaxMouvements)

create_numero_part == CreateNumeroPart(LedgerPartInputs)

\* The response leaves: the route returns, or the exception reaches the caller.
respond ==
    /\ ~Idle
    /\ last' = NoRequest
    /\ UNCHANGED <<tables, sessions>>

Next ==
    \/ create_personne
    \/ create_mouvement
    \/ create_numero_part
    \/ delete_numero_part
    \/ transfer_parts
    \/ respond

Spec == Init /\ [][Next]_vars

-----------------------------------------------------------------------------
(* The share counts read on every ledger of personnes and shares. *)

create_any_personne == CreatePersonne(PersonneInputs)

create_any_numero_part == CreateNumeroPart(CountPartInputs)

NextCounts ==
    \/ create_any_personne
    \/ create_any_numero_part
    \/ get_personne_with_parts
    \/ get_personnes_with_parts
    \/ get_parts_totals
    \/ respond

SpecCounts == Init /\ [][NextCounts]_vars

-----------------------------------------------------------------------------
(* The listings of mouvements read on every ledger of actes and mouvements. *)

create_listed_mouvement == CreateMouvement(ListedMouvementInputs, MaxListed)

NextMouvements ==
    \/ create_personne
    \/ create_acte
    \/ create_listed_mouvement
    \/ get_mouvements
    \/ get_mouvements_with_details
    \/ respond

SpecMouvements == Init /\ [][NextMouvements]_vars

-----------------------------------------------------------------------------
(* The rent formula applied to every argument of FermageInputs. *)

NextFermage ==
    \/ calculer_montant_fermage
    \/ respond

SpecFermage == Init /\ [][NextFermage]_vars

-----------------------------------------------------------------------------
(* Transfers in flight at the same time, and one delete request served     *)
(* among them.                                                             *)

InitConc ==
    /\ structures = SeedStructures
    /\ personnes = SeedPersonnes
    /\ mouvements = SeedMouvements
    /\ actes = <<>>
    /\ numeros_parts = SeedParts
    /\ seq = [personnes |-> MaxPersonnes, mouvements |-> MaxMouvements,
              actes |-> 0, numeros_parts |-> MaxParts,
              valeurs_points |-> 0, parcelles |-> 0, subdivisions |-> 0]
    /\ last = NoRequest
    /\ sessions = [s \in SessionIds |-> NoSession]
    /\ valeurs_points = <<>>
    /\ parcelles = <<>>
    /\ subdivisions = <<>>

NextConc ==
    \/ transfer_begin
    \/ transfer_get
    \/ transfer_flush
    \/ transfer_deadlock
    \/ transfer_commit
    \/ transfer_refresh
    \/ delete_numero_part

SpecConc == InitConc /\ [][NextConc]_vars

-----------------------------------------------------------------------------
(* The point values written and the rent previewed. *)

NextValeurs ==
    \/ create_valeur_point
    \/ update_valeur_point
    \/ calculate_fermage
    \/ respond

SpecValeurs == Init /\ [][NextValeurs]_vars

-----------------------------------------------------------------------------
(* The rent of the parcelles: totals and parcel detail. *)

create_fermage_valeur_point == CreateValeurPoint(FermageValeurInputs)

create_fermage_subdivision == CreateSubdivision(FermageSubdivisionInputs)

NextFermages ==
    \/ create_fermage_valeur_point
    \/ create_parcelle
    \/ create_fermage_subdivision
    \/ get_fermages_totaux
    \/ get_parcelle_with_details
    \/ read_parcelle_with_details
    \/ respond

SpecFermages == Init /\ [][NextFermages]_vars

-----------------------------------------------------------------------------
(* The listing of the parcelles, over the parcelles and subdivisions created. *)

create_listing_subdivision == CreateSubdivision(ListingSubdivisionInputs)

NextParcelles ==
    \/ create_parcelle
    \/ create_listing_subdivision
    \/ get_parcelles_with_subdivisions
    \/ respond

SpecParcelles == Init /\ [][NextParcelles]_vars

-----------------------------------------------------------------------------
(* The anomaly queries read on every ledger: shares created without        *)
(* mouvement, then transferred or updated.                                 *)

MaxAnomalyMouvements == 2

\* The payloads of the anomaly specification: shares of a structure and
\* without structure, none linked to a mouvement; mouvements with and without
\* acte, of both personnes.
AnomalyPartInputs ==
    {part_in \in CountPartInputs :
        part_in.id_personne = 1 /\ part_in.num_part \in {1, 4} /\ ~part_in.distribue}

AnomalyMouvementInputs ==
    {mouvement_in \in ListedMouvementInputs : mouvement_in.date_operation # 20190301}

create_anomaly_numero_part == CreateNumeroPart(AnomalyPartInputs)
create_anomaly_mouvement == CreateMouvement(AnomalyMouvementInputs, MaxAnomalyMouvements)

NextAnomalies ==
    \/ create_any_personne
    \/ create_acte
    \/ create_anomaly_mouvement
    \/ create_anomaly_numero_part
    \/ transfer_parts
    \/ update_numero_part
    \/ get_parts_sans_mouvements
    \/ get_mouvements_sans_actes
    \/ get_anomalies_summary
    \/ respond

SpecAnomalies == Init /\ [][NextAnomalies]_vars

-----------------------------------------------------------------------------
(* Personnes created and updated with links to personnes morales. *)

NextMorales ==
    \/ create_member_personne
    \/ update_personne
    \/ respond

SpecMorales == Init /\ [][NextMorales]_vars

-----------------------------------------------------------------------------
(* Parcelles and subdivisions created, updated and deleted. *)

NextCadastre ==
    \/ create_parcelle
    \/ create_listing_subdivision
    \/ update_subdivision
    \/ delete_parcelle
    \/ respond

SpecCadastre == Init /\ [][NextCadastre]_vars

-----------------------------------------------------------------------------
(* Shares created, renumbered and looked up by number. *)

NextNumeros ==
    \/ create_personne
    \/ create_any_numero_part
    \/ update_numero_part_fields
    \/ get_numero_part_by_num
    \/ respond

SpecNumeros == Init /\ [][NextNumeros]_vars

-----------------------------------------------------------------------------
(* Rows of every table updated, from a store that holds some. *)

\* What create_parcelle, create_subdivision and create_valeur_point leave:
\* one parcelle with its subdivisions, and the point values of one year.
SeedParcelles == (1 :> [id |-> 1, parcelle |-> 1, sctl |-> FALSE, id_commune |-> 1])

SeedSubdivisions ==
    [id \in 1..MaxSubdivisions |->
        [id |-> id, division |-> 1, subdivision |-> id, surface |-> Dec(25, 1),
         revenu |-> Dec(3, 0), point_fermage |-> Dec(10, 0), id_exploitant |-> 1,
         id_type_fermage |-> 1, id_parcelle |-> 1]]

SeedValeurs ==
    (1 :> [id |-> 1, annee |-> 2023, valeur_point_gfa |-> Dec(169, 2),
           valeur_point_sctl |-> Dec(20, 1), valeur_supp_gfa |-> Dec(5, 0),
           valeur_supp_sctl |-> Dec(75, 1)])

InitUpdates ==
    /\ structures = SeedStructures
    /\ personnes = SeedPersonnes
    /\ mouvements = <<>>
    /\ actes = <<>>
    /\ numeros_parts = SeedParts
    /\ seq = [personnes |-> MaxPersonnes, mouvements |-> 0, actes |-> 0,
              numeros_parts |-> MaxParts, valeurs_points |-> 1, parcelles |-> 1,
              subdivisions |-> MaxSubdivisions]
    /\ last = NoRequest
    /\ sessions = [s \in SessionIds |-> NoSession]
    /\ valeurs_points = SeedValeurs
    /\ parcelles = SeedParcelles
    /\ subdivisions = SeedSubdivisions

NextUpdates ==
    \/ update_numero_part_fields
    \/ update_personne_fields
    \/ update_subdivision
    \/ update_valeur_point
    \/ respond

SpecUpdates == InitUpdates /\ [][NextUpdates]_vars

-----------------------------------------------------------------------------
(* Mouvements recorded on a ledger of personnes and shares. *)

\* MouvementCreate payloads of either sens, for one share or two.
RecordedMouvementInputs ==
    [date_operation : {NULL}, sens : BOOLEAN, nb_parts : {1, 2},
     id_personne : PersonneIdInputs, id_acte : {NULL}]

create_recorded_mouvement == CreateMouvement(RecordedMouvementInputs, MaxMouvements)

NextRecorded ==
    \/ create_any_personne
    \/ create_any_numero_part
    \/ create_recorded_mouvement
    \/ respond

SpecRecorded == Init /\ [][NextRecorded]_vars

-----------------------------------------------------------------------------
(* The rent computed from point values of several supplements. *)

\* The supplement percentages a row of point values may hold.
SuppInputs == {Dec(0, 0), Dec(5, 0), Dec(75, 1)}

\* ValeurPointCreate payloads of one year that differ by their supplements.
SuppValeurInputs ==
    [annee : {2024}, valeur_point_gfa : {Dec(169, 2)}, valeur_point_sctl : {Dec(20, 1)},
     valeur_supp_gfa : {Dec(0, 0), Dec(5, 0)}, valeur_supp_sctl : {Dec(75, 1)}]

create_supp_valeur_point == CreateValeurPoint(SuppValeurInputs)

NextSupplement ==
    \/ create_supp_valeur_point
    \/ create_parcelle
    \/ create_fermage_subdivision
    \/ get_fermages_totaux
    \/ get_parcelle_with_details
    \/ calculate_fermage
    \/ respond

SpecSupplement == Init /\ [][NextSupplement]_vars

-----------------------------------------------------------------------------
(* The listings of personnes read on every ledger of personnes and shares. *)

\* PersonneCreate payloads of the listings: those of PersonneInputs and a
\* personne morale of structure 1.
ListedPersonneInputs ==
    PersonneInputs \cup
    { [nom |-> 1, prenom |-> 2, id_structure |-> 1,
       est_personne_morale |-> TRUE, id_personne_morale |-> NULL] }

create_listed_personne == CreatePersonne(ListedPersonneInputs)

\* The shares of the listings: counted shares of personne 1.
ListedPartInputs ==
    {part_in \in CountPartInputs : part_in.id_personne = 1 /\ part_in.id_structure \in {1, 2}}

create_listed_numero_part == CreateNumeroPart(ListedPartInputs)

NextPersonnes ==
    \/ create_listed_personne
    \/ create_listed_numero_part
    \/ get_personnes_with_parts
    \/ get_personnes
    \/ respond

SpecPersonnes == Init /\ [][NextPersonnes]_vars

-----------------------------------------------------------------------------
(* Transfers in flight at the same time on a ledger with a mouvement for   *)
(* each of them.                                                           *)

\* What create_mouvement leaves once every mouvement a request may name is
\* recorded.
SeedAllMouvements ==
    [id \in MouvementIdInputs |->
        [id |-> id, date_operation |-> NULL, sens |-> TRUE, nb_parts |-> 1,
         id_personne |-> 1, id_acte |-> NULL]]

InitOverlap ==
    /\ structures = SeedStructures
    /\ personnes = SeedPersonnes
    /\ mouvements = SeedAllMouvements
    /\ actes = <<>>
    /\ numeros_parts = SeedParts
    /\ seq = [personnes |-> MaxPersonnes, mouvements |-> MaxMouvements + 1,
              actes |-> 0, numeros_parts |-> MaxParts,
              valeurs_points |-> 0, parcelles |-> 0, subdivisions |-> 0]
    /\ last = NoRequest
    /\ sessions = [s \in SessionIds |-> NoSession]
    /\ valeurs_points = <<>>
    /\ parcelles = <<>>
    /\ subdivisions = <<>>

SpecOverlap == InitOverlap /\ [][NextConc]_vars

-----------------------------------------------------------------------------
(* Shares attached to mouvements that are then deleted. *)

\* The payloads of the deletion specification: shares of personne 1 with any
\* id_mouvement a request may name, mouvements of personne 1 without acte.
AttachedPartInputs ==
    {part_in \in PartInputs :
        part_in.id_personne = 1 /\ part_in.num_part \in {1, 4}}

AttachedMouvementInputs ==
    {mouvement_in \in ListedMouvementInputs :
        mouvement_in.id_acte = NULL /\ mouvement_in.id_personne = 1}

create_attached_numero_part == CreateNumeroPart(AttachedPartInputs)
create_attached_mouvement == CreateMouvement(AttachedMouvementInputs, MaxAnomalyMouvements)

NextDeletes ==
    \/ create_any_personne
    \/ create_attached_mouvement
    \/ create_attached_numero_part
    \/ transfer_parts
    \/ update_numero_part
    \/ delete_mouvement
    \/ get_parts_sans_mouvements
    \/ respond

SpecDeletes == Init /\ [][NextDeletes]_vars

-----------------------------------------------------------------------------
(* transfer_parts: the claims. *)

IsTransfer == last.op = "transfer_parts"

\* The ids of the request that named a row when the transfer was called.
FoundIds == SelectSeq(last.args.part_ids, LAMBDA id : id \in Ids(last.pre))

\* C1: when transfer_parts returns, every id of part_ids that named an
\* existing NumeroPart has a row with id_personne = new_owner_id and
\* id_mouvement = mouvement_id, stored and in the returned list; the ids that
\* named no row are absent from the list, which has one entry per existing
\* requested id, in the order of the request, and is never longer than it.
C1_TransferResult ==
    (IsTransfer /\ last.outcome = "returned") =>
        /\ Len(last.ret) = Len(FoundIds)
        /\ Len(last.ret) <= Len(last.args.part_ids)
        /\ \A i \in DOMAIN last.ret :
            /\ last.ret[i].id = FoundIds[i]
            /\ last.ret[i].id_personne = last.args.new_owner_id
            /\ last.ret[i].id_mouvement = last.args.mouvement_id
            /\ numeros_parts[FoundIds[i]] = last.ret[i]
        /\ \A id \in Range(last.args.part_ids) \ Ids(last.pre) :
            \A i \in DOMAIN last.ret : last.ret[i].id # id

\* A transfer that found one of two requested ids.
C1_Witness ==
    /\ IsTransfer
    /\ last.outcome = "returned"
    /\ Len(last.args.part_ids) = 2
    /\ Len(last.ret) = 1

\* The foreign keys a transfer request names.
RequestReferencesExist ==
    /\ last.args.new_owner_id \in Ids(personnes)
    /\ last.args.mouvement_id \in Ids(mouvements)

\* C3: a transfer_parts whose mouvement_id or new_owner_id references no row
\* ends with a constraint-violation result handed to its caller, not with an
\* exception escaping, and leaves every NumeroPart as it was.  Stated for the
\* requests that name an existing share, those the store is asked to write.
C3_ConstraintViolationReported ==
    (IsTransfer /\ ~RequestReferencesExist /\ FoundIds # <<>>) =>
        /\ last.outcome = "constraint_violation"
        /\ numeros_parts = last.pre

\* Fields of a NumeroPart a transfer does not assign.
OtherFields(row) ==
    [num_part |-> row.num_part, termine |-> row.termine, distribue |-> row.distribue,
     etat |-> row.etat, id_structure |-> row.id_structure]

\* C4: transfer_parts neither deletes nor creates a share, leaves num_part,
\* termine, distribue, etat and id_structure of every share as they were, and
\* leaves every share not named in part_ids unchanged.
C4_TransferFrame ==
    IsTransfer =>
        /\ Ids(numeros_parts) = Ids(last.pre)
        /\ \A id \in Ids(last.pre) :
            /\ OtherFields(numeros_parts[id]) = OtherFields(last.pre[id])
            /\ id \notin Range(last.args.part_ids) => numeros_parts[id] = last.pre[id]

\* A transfer that wrote one share while another share was not named.
C4_Witness ==
    /\ IsTransfer
    /\ last.outcome = "returned"
    /\ \E id \in Ids(last.pre) : numeros_parts[id] # last.pre[id]
    /\ \E id \in Ids(last.pre) : id \notin Range(last.args.part_ids)

\* The shares of the request that a count of the given kind counted before
\* the transfer.
CountedMoved(kind) ==
    {id \in Range(FoundIds) :
        /\ last.pre[id].termine = FALSE
        /\ last.pre[id].id_structure \in Ids(structures)
        /\ structures[last.pre[id].id_structure].type_structure = kind}

\* What a returned transfer does to the count of personne p for one kind.
CountAfterTransfer(p, kind, before) ==
    LET left == {id \in CountedMoved(kind) :
                    last.pre[id].id_personne = p /\ p # last.args.new_owner_id}
        arrived == {id \in CountedMoved(kind) :
                    last.pre[id].id_personne # p /\ p = last.args.new_owner_id}
    IN  before - Cardinality(left) + Cardinality(arrived)

\* C5: after a transfer_parts the gfa, sctl and total figures of
\* get_parts_totals are those of before, and the counts of every personne,
\* computed on the ledger as it now is, are those of before less the counted
\* shares that left the personne plus the counted shares that reached it.
C5_CountsFollowTransfer ==
    IsTransfer =>
        LET before == GetPartsTotals(last.pre, structures)
            after == GetPartsTotals(numeros_parts, structures)
            moved == last.outcome = "returned"
        IN  /\ after.gfa = before.gfa
            /\ after.sctl = before.sctl
            /\ after.total = before.total
            /\ \A p \in Ids(personnes) :
                LET was == PersonneCounts(last.pre, structures, p)
                    is == PersonneCounts(numeros_parts, structures, p)
                IN  IF moved
                    THEN /\ is.nb_parts_gfa = CountAfterTransfer(p, GFA, was.nb_parts_gfa)
                         /\ is.nb_parts_sctl = CountAfterTransfer(p, TSL, was.nb_parts_sctl)
                         /\ is.nb_parts_total = is.nb_parts_gfa + is.nb_parts_sctl
                    ELSE is = was

\* A transfer that moved a counted share from one personne to another.
C5_Witness ==
    /\ IsTransfer
    /\ last.outcome = "returned"
    /\ \E p \in Ids(personnes) :
        /\ p # last.args.new_owner_id
        /\ PersonneCounts(numeros_parts, structures, p).nb_parts_total
            < PersonneCounts(last.pre, structures, p).nb_parts_total
    /\ PersonneCounts(numeros_parts, structures, last.args.new_owner_id).nb_parts_total > 0

-----------------------------------------------------------------------------
(* Share counts: the claims. *)

\* The non-terminated shares of personne p whose structure is of the kind.
OwnedOfKind(p, kind) ==
    {id \in Ids(numeros_parts) :
        /\ numeros_parts[id].id_personne = p
        /\ ~numeros_parts[id].termine
        /\ numeros_parts[id].id_structure # NULL
        /\ structures[numeros_parts[id].id_structure].type_structure = kind}

\* C6: for every existing personne p, get_personne_with_parts(p) reports
\* nb_parts_gfa = the number of non-terminated shares of p under a GFA
\* structure, nb_parts_sctl = the same under a TSL structure, and
\* nb_parts_total = their sum; a terminated share is never counted.
C6_PersonneCounts ==
    last.op = "get_personne_with_parts" =>
        IF last.args \in Ids(personnes)
        THEN /\ last.ret # <<>>
             /\ last.ret[1].id = last.args
             /\ last.ret[1].nb_parts_gfa = Cardinality(OwnedOfKind(last.args, GFA))
             /\ last.ret[1].nb_parts_sctl = Cardinality(OwnedOfKind(last.args, TSL))
             /\ last.ret[1].nb_parts_total
                    = last.ret[1].nb_parts_gfa + last.ret[1].nb_parts_sctl
        ELSE last.ret = <<>>

\* The counts of a personne owning a counted share and a terminated one.
C6_Witness ==
    /\ last.op = "get_personne_with_parts"
    /\ last.ret # <<>>
    /\ last.ret[1].nb_parts_total = 1
    /\ \E id \in Ids(numeros_parts) :
        numeros_parts[id].id_personne = last.args /\ numeros_parts[id].termine

Triple(row) == <<row.nb_parts_gfa, row.nb_parts_sctl, row.nb_parts_total>>

\* C7: every personne the listing get_personnes_with_parts returns, under
\* any filters and page, carries the triple (nb_parts_gfa, nb_parts_sctl,
\* nb_parts_total) that get_personne_with_parts reports for it on the same
\* ledger, 0 included.
C7_BulkEqualsSingle ==
    last.op = "get_personnes_with_parts" =>
        \A i \in DOMAIN last.ret.data :
            LET row == last.ret.data[i]
                single == GetPersonneWithParts(personnes, numeros_parts, structures, row.id)
            IN  /\ single # <<>>
                /\ Triple(row) = Triple(single[1])

\* A page listing a personne with counted shares and one with none, while a
\* terminated share exists.
C7_Witness ==
    /\ last.op = "get_personnes_with_parts"
    /\ \E i, j \in DOMAIN last.ret.data :
        /\ last.ret.data[i].nb_parts_total > 0
        /\ last.ret.data[j].nb_parts_total = 0
    /\ \E id \in Ids(numeros_parts) : numeros_parts[id].termine

\* The sum of the values of a function with a finite domain.
RECURSIVE SumOf(_)
SumOf(f) ==
    IF DOMAIN f = {} THEN 0
    ELSE LET x == CHOOSE y \in DOMAIN f : TRUE
         IN  f[x] + SumOf([y \in DOMAIN f \ {x} |-> f[y]])

\* C8: get_parts_totals reports gfa and sctl equal to the sums over the
\* personnes of their nb_parts_gfa and nb_parts_sctl, total = gfa + sctl, and
\* actionnaires = the number of personnes owning a non-terminated share.
C8_TotalsAreSums ==
    last.op = "get_parts_totals" =>
        LET gfaOf == [p \in Ids(personnes) |->
                        PersonneCounts(numeros_parts, structures, p).nb_parts_gfa]
            sctlOf == [p \in Ids(personnes) |->
                        PersonneCounts(numeros_parts, structures, p).nb_parts_sctl]
            holders == {p \in Ids(personnes) :
                            \E id \in Ids(numeros_parts) :
                                /\ numeros_parts[id].id_personne = p
                                /\ ~numeros_parts[id].termine}
        IN  /\ last.ret.gfa = SumOf(gfaOf)
            /\ last.ret.sctl = SumOf(sctlOf)
            /\ last.ret.total = last.ret.gfa + last.ret.sctl
            /\ last.ret.actionnaires = Cardinality(holders)

\* Two non-terminated shares of two personnes, one under a GFA and one under
\* the TSL: gfa=1, sctl=1, total=2, actionnaires=2.
C8_Witness ==
    /\ last.op = "get_parts_totals"
    /\ Cardinality(Ids(numeros_parts)) = 2
    /\ \A id \in Ids(numeros_parts) : ~numeros_parts[id].termine
    /\ \E a, b \in Ids(numeros_parts) :
        /\ numeros_parts[a].id_personne # numeros_parts[b].id_personne
        /\ numeros_parts[a].id_structure = 1
        /\ numeros_parts[b].id_structure = 2
    /\ last.ret = [gfa |-> 1, sctl |-> 1, total |-> 2, actionnaires |-> 2]

-----------------------------------------------------------------------------
(* Listings of mouvements: the claims. *)

IsMouvementListing == last.op \in {"get_mouvements", "get_mouvements_with_details"}

\* The effective date of a listed mouvement: date_operation if present, else
\* the date of the linked acte, else none.
ListedEffectiveDate(row) ==
    IF row.date_operation # NULL THEN row.date_operation
    ELSE IF row.id_acte # NULL THEN actes[row.id_acte].date_acte
    ELSE NULL

\* C9: get_mouvements and get_mouvements_with_details list the mouvements
\* matching the filters by effective date descending, a mouvement without
\* effective date after every mouvement that has one.
C9_ListedByEffectiveDateDesc ==
    IsMouvementListing =>
        /\ \A i \in DOMAIN last.ret.data :
            MouvementMatches(last.ret.data[i], last.args.filters)
        /\ \A i, j \in DOMAIN last.ret.data :
            i < j =>
                LET a == ListedEffectiveDate(last.ret.data[i])
                    b == ListedEffectiveDate(last.ret.data[j])
                IN  \/ b = NULL
                    \/ a # NULL /\ a >= b

\* The listing of A (no date_operation, acte of 2020-01-01), B (date_operation
\* 2021-06-01) and C (neither date nor acte) comes as [C, B, A].
C9_ScenarioListedUndatedFirst ==
    /\ last.op = "get_mouvements"
    /\ Len(last.ret.data) = 3
    /\ ListedEffectiveDate(last.ret.data[1]) = NULL
    /\ last.ret.data[1].id_acte = NULL
    /\ last.ret.data[2].date_operation = 20210601
    /\ last.ret.data[3].date_operation = NULL
    /\ ListedEffectiveDate(last.ret.data[3]) = 20200101

-----------------------------------------------------------------------------
(* Fermage: the claims. *)

\* C10: calculer_montant_fermage returns (points * surface) / 10000 times
\* the sctl point value when est_sctl, the gfa point value otherwise, plus
\* supplement% / 100 of that amount, with the supplement of the same
\* category, only when that category's supplement is active.  Written on
\* integers: the amount is numerator / 10^places.
C10_MontantFermage ==
    last.op = "calculer_montant_fermage" =>
        LET a == last.args
            valeur == IF a.est_sctl THEN a.valeur_point_sctl ELSE a.valeur_point_gfa
            active == IF a.est_sctl THEN a.supp_sctl ELSE a.supp_gfa
            supp == IF a.est_sctl THEN a.valeur_supp_sctl ELSE a.valeur_supp_gfa
            amount == a.point_fermage.c * a.surface.c * valeur.c
            places == a.point_fermage.e + a.surface.e + valeur.e + 4
        IN  IF active
            THEN DecEq(last.ret, Dec(amount * (Pow10(supp.e + 2) + supp.c),
                                     places + supp.e + 2))
            ELSE DecEq(last.ret, Dec(amount, places))

\* points=10, surface=2.5, sctl=false, Vn=1.69 gives 0.004225; the sctl
\* supplement, active, is not added to a gfa rent.
C10_Witness ==
    /\ last.op = "calculer_montant_fermage"
    /\ last.args.point_fermage = Dec(10, 0)
    /\ last.args.surface = Dec(25, 1)
    /\ ~last.args.est_sctl
    /\ last.args.valeur_point_gfa = Dec(169, 2)
    /\ ~last.args.supp_gfa
    /\ last.args.supp_sctl
    /\ last.args.valeur_supp_sctl = Dec(75, 1)
    /\ DecDivPow10(DecMul(last.args.point_fermage, last.args.surface), 4) = Dec(25, 4)
    /\ last.ret = Dec(4225, 6)

-----------------------------------------------------------------------------
(* Concurrent transfers: the claims. *)

\* The step is the COMMIT of the transfer of session s.
CommitsTransfer(s) == sessions[s].pc = "loop" /\ sessions'[s].pc = "committed"

\* The row of a part the transfer of session s found, after its commit:
\* every column the transfer changed holds the new value.
CarriesTransfer(s, id) ==
    LET session == sessions[s]
        cols == AssignedColumns(session.loaded[id], session.new_owner_id,
                                session.mouvement_id)
    IN  /\ "id_personne" \in cols => numeros_parts'[id].id_personne = session.new_owner_id
        /\ "id_mouvement" \in cols => numeros_parts'[id].id_mouvement = session.mouvement_id
        /\ OtherFields(numeros_parts'[id]) = OtherFields(numeros_parts[id])

\* C2: the write of transfer_parts is all-or-nothing.  The owner and the
\* mouvement of the stored parts change only in the step that commits one
\* transfer, which writes every part it found and no other row; no step of
\* a transfer before its commit, and no step in which it fails, changes a
\* stored part.
C2_TransferWriteAtomic ==
    [][ /\ (numeros_parts' # numeros_parts /\ Ids(numeros_parts') = Ids(numeros_parts)) =>
            \E s \in SessionIds :
                /\ CommitsTransfer(s)
                /\ \A id \in Ids(numeros_parts) :
                    IF id \in Range(sessions[s].transferred)
                    THEN CarriesTransfer(s, id)
                    ELSE numeros_parts'[id] = numeros_parts[id]
        /\ \A s \in SessionIds :
            (sessions[s].pc = "loop" /\ sessions'[s].pc = "raised") =>
                numeros_parts' = numeros_parts
      ]_vars

\* A transfer of two parts has committed, both carry its owner and its
\* mouvement, while another transfer that found a part failed on a foreign
\* key and changed nothing.
C2_Witness ==
    \E s, t \in SessionIds :
        /\ s # t
        /\ sessions[s].pc = "committed"
        /\ Cardinality(Range(sessions[s].transferred)) = 2
        /\ \A id \in Range(sessions[s].transferred) :
            /\ id \in Ids(numeros_parts)
            /\ sessions[s].loaded[id].id_personne # sessions[s].new_owner_id
            /\ sessions[s].loaded[id].id_mouvement # sessions[s].mouvement_id
            /\ numeros_parts[id].id_personne = sessions[s].new_owner_id
            /\ numeros_parts[id].id_mouvement = sessions[s].mouvement_id
        /\ sessions[t].pc = "raised"
        /\ sessions[t].ret = "IntegrityError"
        /\ sessions[t].transferred # <<>>
        /\ Range(sessions[t].transferred) \subseteq Range(sessions[s].transferred)

-----------------------------------------------------------------------------
(* Point values: the claims. *)

\* The year of the request has no row.
YearWithoutRow(annee) ==
    /\ annee # NULL
    /\ \A id \in Ids(valeurs_points) : valeurs_points[id].annee # annee

\* C11: calculate_fermage called with a year that has no ValeurPoint row
\* returns montant_fermage = 0, whatever the points, the surface and the
\* sctl flag, and does not raise.
C11_ZeroWithoutRow ==
    (last.op = "calculate_fermage" /\ YearWithoutRow(last.args.annee)) =>
        /\ last.outcome = "returned"
        /\ last.ret.montant_fermage = Dec(0, 0)

\* The rent previewed for 10 points on 2.5 ha in a year without a row is
\* 0.0025, the amount at a point value of 1.
C11_ScenarioPreviewAtOne ==
    /\ last.op = "calculate_fermage"
    /\ YearWithoutRow(last.args.annee)
    /\ last.args.point_fermage = Dec(10, 0)
    /\ last.args.surface = Dec(25, 1)
    /\ last.ret.valeur_point = Dec(1, 0)
    /\ last.ret.montant_fermage = Dec(25, 4)

\* The write served last would give the year of another row to its row.
TakesYear ==
    \/ /\ last.op = "create_valeur_point"
       /\ \E id \in Ids(last.pre) : last.pre[id].annee = last.args.annee
    \/ /\ last.op = "update_valeur_point"
       /\ last.args.valeur_id \in Ids(last.pre)
       /\ \E id \in Ids(last.pre) \ {last.args.valeur_id} :
            last.pre[id].annee = last.args.annee

\* C20: the ValeurPoint table holds at most one row per annee: a create,
\* or an update, that would give a year a second row is rejected as a
\* constraint violation and leaves the table unchanged.
C20_OneRowPerAnnee ==
    /\ \A a, b \in Ids(valeurs_points) :
        valeurs_points[a].annee = valeurs_points[b].annee => a = b
    /\ TakesYear => (last.outcome = "raised" /\ valeurs_points = last.pre)

\* Two rows of the same year are stored after the second create returned.
C20_ScenarioDuplicateYear ==
    /\ last.op = "create_valeur_point"
    /\ last.outcome = "returned"
    /\ \E a, b \in Ids(valeurs_points) :
        a # b /\ valeurs_points[a].annee = valeurs_points[b].annee

-----------------------------------------------------------------------------
(* Rent totals and parcel detail: the claims. *)

\* The subdivisions that satisfy the filters supplied: the tenant on the
\* subdivision, the commune and the sctl flag on its parcelle.
SatisfyingFilters(filters) ==
    {id \in Ids(subdivisions) :
        LET sub == subdivisions[id]
            parcelle == parcelles[sub.id_parcelle]
        IN  /\ filters.id_exploitant = NULL \/ sub.id_exploitant = filters.id_exploitant
            /\ filters.id_commune = NULL \/ parcelle.id_commune = filters.id_commune
            /\ filters.sctl = <<>> \/ parcelle.sctl = filters.sctl[1]}

\* The rent formula without supplement, on integers:
\* points * surface * value / 10000.
FormulaAmount(sub, valeur) ==
    Dec(sub.point_fermage.c * sub.surface.c * valeur.c,
        sub.point_fermage.e + sub.surface.e + valeur.e + 4)

\* The rent of a subdivision at the point value of the category of its
\* own parcelle.
OwnAmount(sub, est_sctl, row) ==
    FormulaAmount(sub, IF est_sctl THEN row.valeur_point_sctl ELSE row.valeur_point_gfa)

SameTotaux(a, b) ==
    /\ DecEq(a.total_surface, b.total_surface)
    /\ DecEq(a.total_revenu, b.total_revenu)
    /\ DecEq(a.total_montant, b.total_montant)
    /\ a.nb_parcelles = b.nb_parcelles

\* C12: a rent requested for a year without ValeurPoint row is reported as
\* zero in a way that tells it from a rent computed with a row: no row of a
\* year gives, on the same subdivisions, the result the missing year gives.
C12_GapDistinguishable ==
    /\ (/\ last.op = "get_fermages_totaux"
        /\ YearWithoutRow(last.args.annee)
        /\ SatisfyingFilters(last.args.filters) # {}) =>
            /\ DecEq(last.ret.total_montant, Dec(0, 0))
            /\ \A v \in ValeurPointCreateInputs :
                ~SameTotaux(last.ret, GetFermageTotaux(subdivisions, parcelles,
                                                       last.args.filters, <<v>>))
    /\ (/\ last.op = "get_parcelle_with_details"
        /\ last.args.valeur_point = <<>>
        /\ last.ret # <<>>
        /\ last.pre # <<>>) =>
            /\ DecEq(last.ret[1].montant_fermage, Dec(0, 0))
            /\ \A v \in ValeurPointCreateInputs :
                ~DecEq(last.ret[1].montant_fermage,
                       GetParcelleWithDetails(parcelles, last.args.parcelle_id,
                                              last.pre, <<v>>)[1].montant_fermage)

\* The totals of a year without row over a subdivision without points are
\* the totals a row of the year would give.
C12_ScenarioSameAsLegitimateZero ==
    /\ last.op = "get_fermages_totaux"
    /\ YearWithoutRow(last.args.annee)
    /\ SatisfyingFilters(last.args.filters) # {}
    /\ \E v \in ValeurPointCreateInputs :
        SameTotaux(last.ret, GetFermageTotaux(subdivisions, parcelles,
                                              last.args.filters, <<v>>))

\* C13: with a ValeurPoint row resolved, total_montant of get_fermage_totaux
\* is the sum, over the subdivisions matching the filters, of the rent
\* formula at the point value of the category of each subdivision's own
\* parcelle.
C13_TotalMontantByOwnParcelle ==
    (last.op = "get_fermages_totaux" /\ last.pre # <<>>) =>
        LET matching == SatisfyingFilters(last.args.filters)
            amounts == [id \in matching |->
                           OwnAmount(subdivisions[id],
                                     parcelles[subdivisions[id].id_parcelle].sctl,
                                     last.pre[1])]
        IN  DecEq(last.ret.total_montant, DecSum(amounts, matching))

\* The result spans a rented subdivision of a sctl parcelle and one of a
\* parcelle that is not sctl.
C13_Witness ==
    /\ last.op = "get_fermages_totaux"
    /\ last.pre # <<>>
    /\ last.args.filters.sctl = <<>>
    /\ \E a, b \in SatisfyingFilters(last.args.filters) :
        /\ parcelles[subdivisions[a].id_parcelle].sctl
        /\ ~parcelles[subdivisions[b].id_parcelle].sctl
        /\ subdivisions[a].point_fermage.c # 0
        /\ subdivisions[b].point_fermage.c # 0
    /\ ~DecEq(last.ret.total_montant, Dec(0, 0))

\* C14: total_surface and total_revenu of get_fermage_totaux are the sums
\* over exactly the subdivisions that satisfy all the filters supplied,
\* nb_parcelles is the number of distinct parcelles of those subdivisions,
\* and the four figures are zero when no subdivision matches.
C14_TotalsOverMatching ==
    last.op = "get_fermages_totaux" =>
        LET matching == SatisfyingFilters(last.args.filters)
        IN  /\ DecEq(last.ret.total_surface,
                     DecSum([id \in matching |-> subdivisions[id].surface], matching))
            /\ DecEq(last.ret.total_revenu,
                     DecSum([id \in matching |-> subdivisions[id].revenu], matching))
            /\ last.ret.nb_parcelles =
                    Cardinality({subdivisions[id].id_parcelle : id \in matching})
            /\ matching = {} =>
                    /\ last.ret.total_surface = Dec(0, 0)
                    /\ last.ret.total_revenu = Dec(0, 0)
                    /\ last.ret.total_montant = Dec(0, 0)
                    /\ last.ret.nb_parcelles = 0

\* Two subdivisions of one parcelle match a tenant filter: one parcelle is
\* counted, and the surfaces add up.
C14_Witness ==
    /\ last.op = "get_fermages_totaux"
    /\ last.args.filters.id_exploitant = 1
    /\ Cardinality(SatisfyingFilters(last.args.filters)) = 2
    /\ last.ret.nb_parcelles = 1
    /\ DecEq(last.ret.total_surface, Dec(5, 0))

\* C15: the parcel detail of an existing parcelle for a year reports the
\* rent of the first subdivision (lowest division, then subdivision) with
\* the sctl flag of the parcelle and the row of the year, zero without row
\* or without subdivision; a missing parcelle is reported not found; the
\* operation does not fail otherwise.
C15_ParcelDetail ==
    /\ last.op = "read_parcelle_with_details" =>
            IF last.args.parcelle_id \in Ids(parcelles)
            THEN /\ last.outcome = "returned"
                 /\ \E first \in FirstSubdivisions(subdivisions, last.args.parcelle_id),
                       valeur_point \in ResolvedValeurPoint(valeurs_points, last.args.annee) :
                        DecEq(last.ret.montant_fermage,
                              IF first = <<>> \/ valeur_point = <<>> THEN Dec(0, 0)
                              ELSE OwnAmount(first[1],
                                             parcelles[last.args.parcelle_id].sctl,
                                             valeur_point[1]))
            ELSE last.outcome = "raised" /\ last.ret = "HTTP 404"
    /\ last.op = "get_parcelle_with_details" =>
            IF last.args.parcelle_id \in Ids(parcelles)
            THEN /\ last.ret # <<>>
                 /\ \A other \in SubdivisionsOf(subdivisions, last.args.parcelle_id) :
                        last.pre # <<>> /\ DivisionOrdered(subdivisions, last.pre[1].id, other)
                 /\ DecEq(last.ret[1].montant_fermage,
                          IF last.pre = <<>> \/ last.args.valeur_point = <<>> THEN Dec(0, 0)
                          ELSE OwnAmount(last.pre[1], parcelles[last.args.parcelle_id].sctl,
                                         last.args.valeur_point[1]))
            ELSE last.ret = <<>>

\* The route fails on a parcelle that exists.
C15_ScenarioRouteFails ==
    /\ last.op = "read_parcelle_with_details"
    /\ last.args.parcelle_id \in Ids(parcelles)
    /\ last.outcome = "raised"
    /\ last.ret = "TypeError"

-----------------------------------------------------------------------------
(* The listing of the parcelles: the claims. *)

IsListing == last.outcome = "returned" /\ last.op = "get_parcelles_with_subdivisions"

\* (division, subdivision) of summary a is not after that of summary b.
SummaryOrdered(a, b) ==
    \/ a.division < b.division
    \/ a.division = b.division /\ a.subdivision <= b.subdivision

\* The summary is the one of the stored subdivision of its id.
SummaryOf(entry, sub) ==
    /\ entry.division = sub.division
    /\ entry.subdivision = sub.subdivision
    /\ DecEq(entry.surface, sub.surface)
    /\ entry.id_exploitant = sub.id_exploitant
    /\ entry.nom_exploitant = NomExploitant(sub.id_exploitant)

\* C16: for every parcelle returned by get_parcelles_with_subdivisions,
\* total_surface is the sum of the surfaces of all its subdivisions,
\* nb_subdivisions is their number, the summary list holds one entry per
\* subdivision in ascending (division, subdivision) order, and first_division,
\* first_exploitant and first_exploitant_id are those of the first entry of
\* the list, all null when the parcelle has no subdivision.
C16_ListedAggregates ==
    IsListing =>
        \A i \in DOMAIN last.ret.data :
            LET listed == last.ret.data[i]
                own == SubdivisionsOf(subdivisions, listed.id)
                entries == listed.subdivisions
            IN  /\ DecEq(listed.total_surface,
                         DecSum([id \in own |-> subdivisions[id].surface], own))
                /\ listed.nb_subdivisions = Cardinality(own)
                /\ Len(entries) = Cardinality(own)
                /\ {entries[k].id : k \in DOMAIN entries} = own
                /\ \A k \in DOMAIN entries : SummaryOf(entries[k], subdivisions[entries[k].id])
                /\ \A j, k \in DOMAIN entries : j < k => SummaryOrdered(entries[j], entries[k])
                /\ IF own = {}
                   THEN /\ listed.first_division = NULL
                        /\ listed.first_exploitant = <<>>
                        /\ listed.first_exploitant_id = NULL
                   ELSE /\ listed.first_division = entries[1].division
                        /\ listed.first_exploitant = entries[1].nom_exploitant
                        /\ listed.first_exploitant_id = entries[1].id_exploitant

\* A listing that returns a parcelle with two subdivisions of different
\* divisions and tenants, and a parcelle without subdivision.
C16_Witness ==
    /\ IsListing
    /\ \E i, j \in DOMAIN last.ret.data :
        /\ last.ret.data[i].nb_subdivisions = 2
        /\ last.ret.data[i].subdivisions[1].division
                < last.ret.data[i].subdivisions[2].division
        /\ last.ret.data[i].subdivisions[1].id_exploitant
                # last.ret.data[i].subdivisions[2].id_exploitant
        /\ last.ret.data[j].nb_subdivisions = 0
        /\ last.ret.data[j].first_exploitant = <<>>

\* The child filters of the request admit the subdivision.
ChildAdmits(sub, filters) ==
    /\ filters.id_exploitant # NULL => sub.id_exploitant = filters.id_exploitant
    /\ filters.id_type_fermage # NULL => sub.id_type_fermage = filters.id_type_fermage

\* The parcelles a listing filtered by tenant or type of fermage is to
\* return.
ExpectedListing(filters) ==
    {p \in Ids(parcelles) :
        /\ ParcelleMatches(parcelles[p], filters)
        /\ \E id \in SubdivisionsOf(subdivisions, p) : ChildAdmits(subdivisions[id], filters)}

HasChildFilter(filters) == filters.id_exploitant # NULL \/ filters.id_type_fermage # NULL

\* C17: get_parcelles_with_subdivisions filtered by tenant and/or type of
\* fermage returns exactly the parcelles that satisfy the parcelle filters and
\* have a subdivision matching every child filter given (one subdivision for
\* both); a parcelle without such a subdivision is never returned, and count
\* is the number of such parcelles.
C17_ChildFilters ==
    IsListing /\ HasChildFilter(last.args.filters) =>
        LET expected == ExpectedListing(last.args.filters)
            data == last.ret.data
            left == IF Cardinality(expected) > last.args.skip
                    THEN Cardinality(expected) - last.args.skip ELSE 0
        IN  /\ last.ret.count = Cardinality(expected)
            /\ \A i \in DOMAIN data : data[i].id \in expected
            /\ \A i, j \in DOMAIN data : i # j => data[i].id # data[j].id
            /\ Len(data) = IF left < last.args.limit THEN left ELSE last.args.limit

\* A listing under both child filters that returns a parcelle and leaves
\* out one whose only subdivision matches the tenant alone.
C17_Witness ==
    /\ IsListing
    /\ last.args.filters.id_exploitant # NULL
    /\ last.args.filters.id_type_fermage # NULL
    /\ last.args.skip = 0
    /\ Len(last.ret.data) = 1
    /\ \E p \in Ids(parcelles) :
        /\ ParcelleMatches(parcelles[p], last.args.filters)
        /\ p # last.ret.data[1].id
        /\ \E id \in SubdivisionsOf(subdivisions, p) :
                subdivisions[id].id_exploitant = last.args.filters.id_exploitant

-----------------------------------------------------------------------------
(* The anomaly queries: the claims. *)

Answered(op) == last.outcome = "returned" /\ last.op = op

\* The rows of the list are rows of the table, as stored, each once.
StoredOnce(rows, table) ==
    /\ \A i \in DOMAIN rows : rows[i].id \in Ids(table) /\ rows[i] = table[rows[i].id]
    /\ \A i, j \in DOMAIN rows : i # j => rows[i].id # rows[j].id

\* The shares without mouvement, of the structure when one is given.
OrphanParts(id_structure) ==
    {id \in Ids(numeros_parts) :
        /\ numeros_parts[id].id_mouvement = NULL
        /\ id_structure # NULL => numeros_parts[id].id_structure = id_structure}

\* The mouvements without acte, of a personne of the structure when one is
\* given.
OrphanMouvements(id_structure) ==
    {id \in Ids(mouvements) :
        /\ mouvements[id].id_acte = NULL
        /\ id_structure # NULL =>
                /\ mouvements[id].id_personne \in Ids(personnes)
                /\ personnes[mouvements[id].id_personne].id_structure = id_structure}

\* C18: find_parts_sans_mouvements returns exactly the NumeroParts whose
\* id_mouvement is null, of the given id_structure when one is supplied: a
\* share without mouvement is in the result, and a share that transfer_parts
\* or update_numero_part has given a mouvement is in the result of no query
\* that follows.
C18_PartsSansMouvements ==
    Answered("get_parts_sans_mouvements") =>
        /\ StoredOnce(last.ret, numeros_parts)
        /\ {last.ret[i].id : i \in DOMAIN last.ret} = OrphanParts(last.args)
        /\ \A i \in DOMAIN last.ret : last.ret[i].id_mouvement = NULL
        /\ \A id \in Ids(numeros_parts) :
                numeros_parts[id].id_mouvement # NULL =>
                    \A i \in DOMAIN last.ret : last.ret[i].id # id

\* A query that returns a share still without mouvement and leaves out a
\* share of the same structure that has been given one since its creation.
C18_Witness ==
    /\ Answered("get_parts_sans_mouvements")
    /\ Len(last.ret) = 1
    /\ \E id \in Ids(numeros_parts) :
        /\ numeros_parts[id].id_mouvement # NULL
        /\ numeros_parts[id].id_structure = last.ret[1].id_structure

\* C19: find_mouvements_sans_actes returns exactly the Mouvements whose
\* id_acte is null, each once, and with an id_structure only those whose
\* personne has that id_structure; the summary reports the sizes of this set
\* and of the set of shares without mouvement, and their sum as
\* total_anomalies.
C19_MouvementsSansActes ==
    /\ Answered("get_mouvements_sans_actes") =>
        /\ StoredOnce(last.ret, mouvements)
        /\ {last.ret[i].id : i \in DOMAIN last.ret} = OrphanMouvements(last.args)
    /\ Answered("get_anomalies_summary") =>
        /\ last.ret.parts_sans_mouvements.count = Cardinality(OrphanParts(last.args))
        /\ last.ret.mouvements_sans_actes.count = Cardinality(OrphanMouvements(last.args))
        /\ last.ret.total_anomalies =
                Cardinality(OrphanParts(last.args)) + Cardinality(OrphanMouvements(last.args))

\* A query scoped to a structure that returns one mouvement without acte and
\* leaves out another one, whose personne is of no structure.
C19_Witness ==
    /\ Answered("get_mouvements_sans_actes")
    /\ last.args # NULL
    /\ Len(last.ret) = 1
    /\ \E id \in Ids(mouvements) :
        /\ mouvements[id].id_acte = NULL
        /\ id # last.ret[1].id

-----------------------------------------------------------------------------
(* Personnes morales: the claims. *)

\* The personne reached from id after n links id_personne_morale, NULL when
\* the chain ends before.
RECURSIVE MoraleAfter(_, _)
MoraleAfter(id, n) ==
    IF n = 0 \/ id = NULL \/ id \notin Ids(personnes) THEN id
    ELSE MoraleAfter(personnes[id].id_personne_morale, n - 1)

\* The personne lies on a cycle of id_personne_morale links (a personne that
\* names itself is a cycle of length 1).
OnMoraleCycle(id) == \E n \in 1..Cardinality(Ids(personnes)) : MoraleAfter(id, n) = id

\* C21: after any sequence of create_personne and update_personne, every
\* personne whose id_personne_morale is set names an existing personne with
\* est_personne_morale = true, and no personne names itself or lies on a
\* cycle of id_personne_morale links.
C21_MoraleLinks ==
    \A id \in Ids(personnes) :
        /\ personnes[id].id_personne_morale # NULL =>
                /\ personnes[id].id_personne_morale \in Ids(personnes)
                /\ personnes[personnes[id].id_personne_morale].est_personne_morale
        /\ ~OnMoraleCycle(id)

\* update_personne has returned and left a personne that names itself as
\* its personne morale.
C21_ScenarioSelfLink ==
    /\ last.op = "update_personne"
    /\ last.outcome = "returned"
    /\ last.ret.id_personne_morale = last.ret.id

\* create_personne has returned a member of a personne that is not flagged
\* est_personne_morale.
C21_ScenarioNotMorale ==
    /\ last.op = "create_personne"
    /\ last.outcome = "returned"
    /\ last.ret.id_personne_morale \in Ids(personnes) \ {last.ret.id}
    /\ ~personnes[last.ret.id_personne_morale].est_personne_morale

-----------------------------------------------------------------------------
(* Parcelles deleted: the claims. *)

\* The subdivisions of the parcelle named by the request, before it.
ChildrenBefore == SubdivisionsOf(last.pre.subdivisions, last.args)

\* C22: deleting a parcelle never orphans its subdivisions: in every state
\* each Subdivision.id_parcelle names an existing parcelle, and delete_parcelle
\* on a parcelle that has subdivisions either is refused, parcelle and
\* subdivisions all remaining, or removes the subdivisions with the parcelle.
C22_NoOrphanSubdivision ==
    /\ \A id \in Ids(subdivisions) : subdivisions[id].id_parcelle \in Ids(parcelles)
    /\ last.op = "delete_parcelle" /\ last.args \in Ids(last.pre.parcelles)
            /\ ChildrenBefore # {} =>
        \/ /\ last.outcome = "raised"
           /\ parcelles = last.pre.parcelles
           /\ subdivisions = last.pre.subdivisions
        \/ /\ last.outcome = "returned"
           /\ last.args \notin Ids(parcelles)
           /\ ChildrenBefore \cap Ids(subdivisions) = {}

\* delete_parcelle has been called on a parcelle with a subdivision.
C22_Witness ==
    /\ last.op = "delete_parcelle"
    /\ last.args \in Ids(last.pre.parcelles)
    /\ ChildrenBefore # {}
    /\ Cardinality(Ids(last.pre.parcelles)) = 2

-----------------------------------------------------------------------------
(* Share numbers: the claims. *)

\* Two shares of one structure with the same number.
SameNumber(a, b) ==
    /\ a # b
    /\ numeros_parts[a].id_structure # NULL
    /\ numeros_parts[a].id_structure = numeros_parts[b].id_structure
    /\ numeros_parts[a].num_part = numeros_parts[b].num_part

\* C23: in every state no two NumeroPart rows have the same (id_structure,
\* num_part): a create_numero_part or update_numero_part that would give a
\* structure the same number twice is rejected, so
\* get_numero_part_by_num(num_part, id_structure) matches at most one share.
C23_NumberUniqueInStructure ==
    \A a, b \in Ids(numeros_parts) : ~SameNumber(a, b)

\* create_numero_part has returned a share whose structure already had a
\* share of that number.
C23_ScenarioCreateDuplicate ==
    /\ last.op = "create_numero_part"
    /\ last.outcome = "returned"
    /\ \E b \in Ids(numeros_parts) : SameNumber(last.ret, b)

\* update_numero_part has returned a share renumbered into a number its
\* structure already had.
C23_ScenarioUpdateDuplicate ==
    /\ last.op = "update_numero_part"
    /\ last.outcome = "returned"
    /\ "num_part" \in DOMAIN last.args.part_in
    /\ last.pre[last.ret.id].num_part # last.ret.num_part
    /\ \E b \in Ids(numeros_parts) : SameNumber(last.ret.id, b)

-----------------------------------------------------------------------------
(* Updates: the claims. *)

\* after is before with the fields of data written in the row id: the
\* other fields of the row, its id and the other rows are as before.
MergedInto(before, after, id, data) ==
    /\ Ids(after) = Ids(before)
    /\ \A k \in Ids(before) \ {id} : after[k] = before[k]
    /\ DOMAIN after[id] = DOMAIN before[id]
    /\ after[id].id = id
    /\ \A f \in DOMAIN before[id] :
            after[id][f] = IF f \in DOMAIN data THEN data[f] ELSE before[id][f]

\* The update answered in this step wrote its payload in its row of its
\* table, and nothing else.
UpdateMerges ==
    /\ last'.op = "update_numero_part" =>
        /\ MergedInto(numeros_parts, numeros_parts', last'.args.part_id, last'.args.part_in)
        /\ UNCHANGED <<personnes, subdivisions, valeurs_points>>
    /\ last'.op = "update_personne" =>
        /\ MergedInto(personnes, personnes', last'.args.personne_id,
                      last'.args.personne_in)
        /\ UNCHANGED <<numeros_parts, subdivisions, valeurs_points>>
    /\ last'.op = "update_subdivision" =>
        /\ MergedInto(subdivisions, subdivisions', last'.args.subdivision_id,
                      last'.args.subdivision_in)
        /\ UNCHANGED <<numeros_parts, personnes, valeurs_points>>
    /\ last'.op = "update_valeur_point" =>
        /\ MergedInto(valeurs_points, valeurs_points', last'.args.valeur_id,
                      [annee |-> last'.args.annee])
        /\ UNCHANGED <<numeros_parts, personnes, subdivisions>>
    /\ UNCHANGED <<structures, mouvements, actes, parcelles>>

\* C24: every update (update_numero_part, update_personne,
\* update_subdivision, update_valeur_point) that returns is a partial-field
\* merge: exactly the fields of the payload take the values supplied, every
\* other field keeps its value, the id of the row is unchanged and no other
\* row is modified.
C24_PartialMerge ==
    [][last'.outcome = "returned" /\ last.outcome = "none" => UpdateMerges]_vars

\* update_numero_part has returned for a payload of two fields that changed
\* both, on a share that has other fields and a neighbour.
C24_Witness ==
    /\ last.op = "update_numero_part"
    /\ last.outcome = "returned"
    /\ DOMAIN last.args.part_in = {"num_part", "id_structure"}
    /\ last.pre[last.args.part_id].num_part # last.ret.num_part
    /\ last.pre[last.args.part_id].id_structure # last.ret.id_structure
    /\ last.pre[last.args.part_id].termine
    /\ Cardinality(Ids(numeros_parts)) > 1

-----------------------------------------------------------------------------
(* Mouvements recorded: the claims. *)

\* The step leaves every share as it was, and with them the counts of every
\* personne and the totals.
SharesUntouched ==
    /\ numeros_parts' = numeros_parts
    /\ GetPartsTotals(numeros_parts', structures') = GetPartsTotals(numeros_parts, structures)
    /\ \A personne_id \in PersonneIdInputs :
            GetPersonneWithParts(personnes', numeros_parts', structures', personne_id)
                = GetPersonneWithParts(personnes, numeros_parts, structures, personne_id)

\* The step adds the mouvement returned, and no other.
OneMouvementAdded ==
    /\ last'.ret \notin Ids(mouvements)
    /\ Ids(mouvements') = Ids(mouvements) \cup {last'.ret}
    /\ \A id \in Ids(mouvements) : mouvements'[id] = mouvements[id]

\* C25: create_mouvement only adds one Mouvement row: whatever its sens and
\* nb_parts it leaves every NumeroPart unchanged, so the share counts of each
\* personne and the totals are the same before and after.
C25_MouvementAlone ==
    [][last'.op = "create_mouvement" /\ last.outcome = "none" =>
            /\ SharesUntouched
            /\ last'.outcome = "returned" => OneMouvementAdded]_vars

\* A cession of two shares has been recorded for a personne that owns a
\* counted share.
C25_Witness ==
    /\ last.op = "create_mouvement"
    /\ last.outcome = "returned"
    /\ ~mouvements[last.ret].sens
    /\ mouvements[last.ret].nb_parts = 2
    /\ \E id \in Ids(numeros_parts) :
        /\ numeros_parts[id].id_personne = mouvements[last.ret].id_personne
        /\ ~numeros_parts[id].termine
        /\ numeros_parts[id].id_structure = 1

-----------------------------------------------------------------------------
(* The duration supplement: the claims. *)

\* The row of point values with other supplements.
WithSupplements(row, supp_gfa, supp_sctl) ==
    [row EXCEPT !.valeur_supp_gfa = supp_gfa, !.valeur_supp_sctl = supp_sctl]

-----------------------------------------------------------------------------
(* Listings of personnes: the claims. *)

IsPersonneListing == last.op \in {"get_personnes_with_parts", "get_personnes"}

\* The personnes that satisfy every filter supplied.
SatisfyingPersonnes(filters) ==
    {id \in Ids(personnes) :
        /\ filters.id_structure # NULL => personnes[id].id_structure = filters.id_structure
        /\ filters.est_personne_morale # <<>> =>
                personnes[id].est_personne_morale = filters.est_personne_morale[1]}

-----------------------------------------------------------------------------
(* Overlapping transfers: the claims. *)

\* The transfers that have committed and found the part.
CommittedOn(id) ==
    {s \in SessionIds :
        /\ sessions[s].pc \in {"committed", "returned"}
        /\ id \in Range(sessions[s].transferred)}

\* C28: once two transfer_parts calls that ran at the same time on
\* overlapping part ids have both committed, every part both named holds the
\* (id_personne, id_mouvement) pair of one of the transfers, never the owner
\* written by one with the mouvement written by the other.
C28_OverlapKeepsPairs ==
    \A id \in Ids(numeros_parts) :
        Cardinality(CommittedOn(id)) > 1 =>
            \E s \in CommittedOn(id) :
                /\ numeros_parts[id].id_personne = sessions[s].new_owner_id
                /\ numeros_parts[id].id_mouvement = sessions[s].mouvement_id

\* Two transfers have committed on a part that holds the owner of one and
\* the mouvement of the other, and the pair of neither.
C28_ScenarioMixedPair ==
    \E id \in Ids(numeros_parts) :
        \E s, t \in CommittedOn(id) :
            /\ numeros_parts[id].id_personne = sessions[s].new_owner_id
            /\ numeros_parts[id].id_mouvement = sessions[t].mouvement_id
            /\ numeros_parts[id].id_personne # sessions[t].new_owner_id
            /\ numeros_parts[id].id_mouvement # sessions[s].mouvement_id

-----------------------------------------------------------------------------
(* get_parts_totals against get_personne_with_parts: the claims. *)

\* The personnes get_personne_with_parts reports at least one share for.
CountedHolders ==
    {p \in Ids(personnes) :
        GetPersonneWithParts(personnes, numeros_parts, structures, p)[1].nb_parts_total >= 1}

\* C29: the actionnaires figure of get_parts_totals is the number of
\* personnes whose nb_parts_total from get_personne_with_parts is at least 1,
\* and never exceeds total, also when a non-terminated share has no structure
\* or belongs to a structure of the association kind.
C29_ActionnairesAreCountedHolders ==
    last.op = "get_parts_totals" =>
        /\ last.ret.actionnaires = Cardinality(CountedHolders)
        /\ last.ret.actionnaires <= last.ret.total

\* get_parts_totals answers on a ledger whose only non-terminated share has
\* no structure or belongs to an association: actionnaires is 1, total is 0.
C29_ScenarioUncountedShare ==
    /\ last.op = "get_parts_totals"
    /\ last.ret.total = 0
    /\ last.ret.actionnaires = 1
    /\ CountedHolders = {}
    /\ \E id \in Ids(numeros_parts) :
        /\ ~numeros_parts[id].termine
        /\ numeros_parts[id].id_structure \in {NULL, 3}

-----------------------------------------------------------------------------
(* Mouvements deleted: the claims. *)

\* The shares that pointed to the mouvement when its deletion was asked.
AttachedBefore ==
    {id \in Ids(last.pre.numeros_parts) :
        last.pre.numeros_parts[id].id_mouvement = last.args}

\* C30: every NumeroPart.id_mouvement is NULL or the id of a stored
\* Mouvement after any sequence of creations, updates, transfers and
\* deletions; a delete_mouvement that returns leaves the shares that pointed
\* to the mouvement with id_mouvement NULL, among the rows of
\* find_parts_sans_mouvements.
C30_NoDanglingMouvement ==
    /\ \A id \in Ids(numeros_parts) :
        numeros_parts[id].id_mouvement # NULL =>
            numeros_parts[id].id_mouvement \in Ids(mouvements)
    /\ (last.op = "delete_mouvement" /\ last.outcome = "returned") =>
        \A id \in AttachedBefore :
            /\ numeros_parts[id].id_mouvement = NULL
            /\ id \in PartsSansMouvements(numeros_parts, NULL)

\* delete_mouvement has returned on a mouvement a share pointed to, while
\* another share stays attached to the other mouvement.
C30_Witness ==
    /\ last.op = "delete_mouvement"
    /\ last.outcome = "returned"
    /\ last.args \notin Ids(mouvements)
    /\ AttachedBefore # {}
    /\ \E id \in Ids(numeros_parts) : numeros_parts[id].id_mouvement # NULL
====
